---- MODULE Spec2Model ----
(***************************************************************************)
(* A model of the Paris open-budget pipeline: the budget-vote PDF          *)
(* extractor (pipeline/scripts/tools/extract_pdf_budget_vote.py), the      *)
(* investment merge (pipeline/scripts/export/merge_investments.py), the    *)
(* geocoding cascade (pipeline/scripts/export/geocode_investments.py,      *)
(* llm_extract_addresses.py, pipeline/scripts/geocode_ap_cache.py) and the *)
(* batch calls of the LLM (scripts/enrich_geo_ap_llm.py,                   *)
(* scripts/enrich_thematique_llm.py).                                      *)
(*                                                                         *)
(* Text is modelled as TLA+ strings, read character by character with      *)
(* SubSeq, so that the regular expressions and the string conversions of   *)
(* the source are computed, not assumed.                                   *)
(***************************************************************************)
EXTENDS Integers, Sequences, FiniteSets, TLC

VARIABLES
    \* extract_year of extract_pdf_investments.py
    inv_mode,        \* --mode: "llm", "regex" or "auto"
    inv_sdk,         \* whether google.genai can be imported
    inv_pages,       \* the pages of il_pages, by the name of their text
    inv_i,           \* the place of the loop in inv_pages, from 1
    inv_use_llm,     \* use_llm
    inv_failed,      \* llm_failed_count
    inv_projets,     \* all_projets
    inv_warnings,    \* all_warnings
    inv_call,        \* the last turn of the loop over the pages
    inv_quota,       \* whether a call of the model was answered 429
    inv_streak,      \* the extractions by the model that failed in a row
    inv_pc,          \* "idle", "pages", "done"
    \* calls of is_similar_project of merge_investments.py
    sim_pdf,         \* the projects of the PDF: pdf_data
    sim_bq,          \* the name of the entry of BigQuery
    sim_ret,         \* None, or what the calls returned
    sim_pc,          \* "idle", "ready", "done"
    \* main of enrich_geo_ap_llm.py and of enrich_thematique_llm.py
    en_script,       \* the script that runs
    en_rows,         \* the keys of the rows the query gives, by amount
    en_file,         \* the seed file of the cache: key -> entry
    en_cache,        \* the dict cache of main
    en_loaded,       \* the cache as load_existing_cache gave it to the run
    en_to_process,   \* the list to_process of main
    en_i,            \* the index of the loop over batches, from 1
    en_call,         \* the last turn of the loop over batches
    en_done,         \* the entries the file held when a save_cache ended
    en_runs,         \* the number of runs started
    en_pc,           \* "idle", "batches", "save", "write"
    \* the loop over the years of main of the two PDF extractors
    yr_script,       \* "extract_pdf_budget_vote" or "extract_pdf_investments"
    yr_all,          \* whether every year of PDF_SOURCES is asked for
    yr_years,        \* the list years of main
    yr_cached,       \* the years whose PDF is in the cache directory
    yr_i,            \* the index of the loop over years
    yr_extracted,    \* the years extract_year returned for, in order
    yr_logged,       \* the years whose failure was printed, in order
    yr_ret,          \* None, or the exception that left main
    yr_pc,           \* "idle", "main", "years", "done"
    \* one call of call_gemini_batch
    gem_script,      \* the script the function belongs to
    gem_key,         \* whether GOOGLE_API_KEY is set
    gem_posts,       \* the responses to the requests sent, in order
                     \* (a request that raised is a response that raises)
    gem_slept,       \* the seconds of each time.sleep, in order
    gem_ret,         \* [returned |-> the list] or [raised |-> the exception],
                     \* None before the end of the call
    gem_pc,          \* "idle", "call", "post", "sleep", "parse", "done"
    \* geocode_ap_cache.py on seed_cache_geo_ap.csv
    ap_file,         \* the rows of seed_cache_geo_ap.csv
    ap_lieux,        \* the registry load_lieux_connus returns, in its order
    ap_rows,         \* the list rows of main
    ap_i,            \* the index of the loop over rows
    ap_call,         \* the last turn of the loop: the row before and after
                     \* it and the responses of the API
    ap_pc,           \* "idle", "main", "rows", "done"
    \* the geocoding of the file of one year
    complet_file,    \* investissements_complet_{year}.json, None when missing
    lieux_connus,    \* the registry load_lieux_connus returns, in its order
    geo_cache_file,  \* geocode_cache.json, None when missing
    geo_cache_run,   \* the dict geo_cache of the run
    projects,        \* the list projects of geocode_year and process_year
    candidates,      \* the places in projects of the candidates of process_year
    geo_i,           \* the index of the loop over projects or candidates
    geo_stats,       \* the dict stats of geocode_year and process_year
    llm_dry_run,     \* the argument dry_run of process_year
    geo_call,        \* the last turn of the loop: the project before and
                     \* after it, the requests sent, what was returned
    geo_ret,         \* what the last run returned or raised, None before
    geo_runs,        \* the number of runs started
    geo_pc,          \* "idle", "geocode_year", "process_year"
    \* merge_year on the files of one year
    il_file,         \* investissements_localises_{year}.json, None if absent
    bq_file,         \* investissements_{year}.json, None if absent
    arg_dry_run,     \* the argument dry_run
    merge_ret,       \* the dict merge_year returned, None before
    out_file,        \* investissements_complet_{year}.json, None if absent
    merge_pc,        \* "ready", "done"
    \* extract_year on one document
    doc,             \* the pages of the PDF, as fitz reads their text
    croisee_pages,   \* the PageInfo list of find_all_croisee_pages
    nv_pages,        \* the NonVentPageInfo list of find_non_ventilated_pages
    pi,              \* the index of the loop over croisee_pages
    nvi,             \* the index of the loop over nv_pages
    prev_sens,       \* the direction carried from page to page
    all_lines,       \* the rows extracted so far
    page_call,       \* the last turn of the loop over croisee_pages: what
                     \* parse_page_data was given and what it returned
    nv_call,         \* the same for the loop over nv_pages
    csv,             \* the seed file written by save_csv, None before
    ext_pc,          \* "scan", "ventilated", "non_ventilated", "done"
    \* extract_func_codes_from_text applied to one page text
    codes_text,      \* the argument text, as its lines (text.split("\n"))
    codes_seen,      \* the local list seen
    codes_ret,       \* the returned leaf_codes
    codes_total,     \* the returned has_total
    codes_pc,        \* "call" before the call, "done" after it returned
    \* parse_french_amount applied to one string
    amount_s,        \* the argument s
    amount_ret,      \* the returned value (None before the call)
    amount_pc        \* "call" before the call, "done" after it returned

amountVars == <<amount_s, amount_ret, amount_pc>>

codesVars == <<codes_text, codes_seen, codes_ret, codes_total, codes_pc>>

extractVars == <<doc, croisee_pages, nv_pages, pi, nvi, prev_sens, all_lines,
                 page_call, nv_call, csv, ext_pc>>

mergeVars == <<il_file, bq_file, arg_dry_run, merge_ret, out_file, merge_pc>>

geoVars == <<complet_file, lieux_connus, geo_cache_file, geo_cache_run, projects,
             candidates, geo_i, geo_stats, llm_dry_run, geo_call, geo_ret, geo_runs, geo_pc>>

geminiVars == <<gem_script, gem_key, gem_posts, gem_slept, gem_ret, gem_pc>>

apVars == <<ap_file, ap_lieux, ap_rows, ap_i, ap_call, ap_pc>>

yearsVars == <<yr_script, yr_all, yr_years, yr_cached, yr_i, yr_extracted, yr_logged, yr_ret, yr_pc>>

enrichVars == <<en_script, en_rows, en_file, en_cache, en_loaded, en_to_process, en_i, en_call, en_done, en_runs, en_pc>>

similarVars == <<sim_pdf, sim_bq, sim_ret, sim_pc>>

investVars == <<inv_mode, inv_sdk, inv_pages, inv_i, inv_use_llm, inv_failed, inv_projets, inv_warnings, inv_call, inv_quota, inv_streak, inv_pc>>

vars == <<amountVars, codesVars, extractVars, mergeVars, geoVars,
         geminiVars, apVars, yearsVars, enrichVars, similarVars, investVars>>

(***************************************************************************)
(* Characters and strings                                                  *)
(***************************************************************************)

\* Python's None (a record, so that it compares with the records that model
\* floats and dictionaries)
None == [none |-> TRUE]

\* the flow directions; NoSens is the None of sens and prev_sens
Depense == "Dépense"

Recette == "Recette"

NoSens == "None"

\* min(S) and max(S) of a non-empty set of integers
Min(S) == CHOOSE x \in S : \A y \in S : x <= y

Max(S) == CHOOSE x \in S : \A y \in S : y <= x

\* U+00A0, the non-breaking space ("\xa0" in the source)
NBSP == " "

\* str[first-1:last] of Python: a slice stops at the ends of str
Slice(str, first, last) ==
    LET a == IF first < 1 THEN 1 ELSE first
        b == IF last > Len(str) THEN Len(str) ELSE last
    IN  IF a > b THEN SubSeq(str, 1, 0) ELSE SubSeq(str, a, b)

\* the character at position i, "" outside str
Ch(str, i) == Slice(str, i, i)

Digits == {"0", "1", "2", "3", "4", "5", "6", "7", "8", "9"}

IsDigit(c) == c \in Digits

DigitVal(c) ==
    CASE c = "0" -> 0 [] c = "1" -> 1 [] c = "2" -> 2 [] c = "3" -> 3
      [] c = "4" -> 4 [] c = "5" -> 5 [] c = "6" -> 6 [] c = "7" -> 7
      [] c = "8" -> 8 [] c = "9" -> 9

\* The whitespace of str.strip() and of the regular expressions' \s that
\* occurs in the modelled texts: space, tab, line feed, non-breaking space.
Whitespace == {" ", "\t", "\n", NBSP}

IsSpace(c) == c \in Whitespace

RECURSIVE lstrip(_)
lstrip(str) ==
    IF str # "" /\ IsSpace(Ch(str, 1)) THEN lstrip(Tail(str)) ELSE str

RECURSIVE rstrip(_)
rstrip(str) ==
    IF str # "" /\ IsSpace(Ch(str, Len(str)))
    THEN rstrip(Slice(str, 1, Len(str) - 1))
    ELSE str

\* str.strip()
strip(str) == rstrip(lstrip(str))

\* str.replace(old, new) for a one-character old
RECURSIVE replace(_, _, _)
replace(str, old, new) ==
    IF str = "" THEN ""
    ELSE IF Len(str) = 1 THEN (IF str = old THEN new ELSE str)
    ELSE replace(Slice(str, 1, Len(str) \div 2), old, new)
         \o replace(Slice(str, Len(str) \div 2 + 1, Len(str)), old, new)

\* str.startswith(prefix)
startswith(str, prefix) ==
    /\ Len(prefix) <= Len(str)
    /\ Slice(str, 1, Len(prefix)) = prefix

\* needle in str
contains(str, needle) ==
    \E i \in 1..(Len(str) - Len(needle) + 1) :
        Slice(str, i, i + Len(needle) - 1) = needle

LowerLetters == "abcdefghijklmnopqrstuvwxyzéèêëàâäùûüîïôöç"

UpperLetters == "ABCDEFGHIJKLMNOPQRSTUVWXYZÉÈÊËÀÂÄÙÛÜÎÏÔÖÇ"

\* the character at the place c has in string from, taken in string to
MapChar(c, from, to) ==
    IF \E i \in 1..Len(from) : Ch(from, i) = c
    THEN Ch(to, CHOOSE i \in 1..Len(from) : Ch(from, i) = c)
    ELSE c

\* str with each character of from replaced by the one at its place in to.
\* (The string is halved rather than read from the left, to keep the
\* evaluation shallow.)
RECURSIVE MapStr(_, _, _)
MapStr(str, from, to) ==
    IF str = "" THEN ""
    ELSE IF Len(str) = 1 THEN MapChar(str, from, to)
    ELSE MapStr(Slice(str, 1, Len(str) \div 2), from, to)
         \o MapStr(Slice(str, Len(str) \div 2 + 1, Len(str)), from, to)

\* str.upper() and str.lower()
upper(str) == MapStr(str, LowerLetters, UpperLetters)

lower(str) == MapStr(str, UpperLetters, LowerLetters)

\* " ".join(l.strip() for l in lines)
RECURSIVE join_stripped(_)
join_stripped(lines) ==
    IF lines = << >> THEN ""
    ELSE IF Len(lines) = 1 THEN strip(lines[1])
    ELSE strip(lines[1]) \o " " \o join_stripped(Tail(lines))

\* the elements of a sequence
Range(seq) == {seq[i] : i \in 1..Len(seq)}

\* the number of leading digits of str from position i
RECURSIVE DigitRun(_, _)
DigitRun(str, i) ==
    IF i <= Len(str) /\ IsDigit(Ch(str, i)) THEN 1 + DigitRun(str, i + 1) ELSE 0

\* the value of a string of digits
RECURSIVE DigitsValue(_)
DigitsValue(str) ==
    IF str = "" THEN 0
    ELSE 10 * DigitsValue(Slice(str, 1, Len(str) - 1))
         + DigitVal(Ch(str, Len(str)))

\* str with every character that is not a digit removed
RECURSIVE OnlyDigits(_)
OnlyDigits(str) ==
    IF str = "" THEN ""
    ELSE IF Len(str) = 1 THEN (IF IsDigit(str) THEN str ELSE "")
    ELSE OnlyDigits(Slice(str, 1, Len(str) \div 2))
         \o OnlyDigits(Slice(str, Len(str) \div 2 + 1, Len(str)))

(***************************************************************************)
(* parse_french_amount                                                     *)
(***************************************************************************)

\* A float is the decimal numeral mant / 10^scale.
Float(mant, scale) == [mant |-> mant, scale |-> scale]

\* Python's float(str) on texts made of digits, ".", "-", "+", letters and
\* whitespace: surrounding whitespace is ignored, then an optional sign and
\* digits with at most one ".", at least one digit. Anything else is a
\* ValueError. (Exponents, "inf", "nan" and "_" need characters that the
\* modelled texts do not hold.)
FloatBody(str) ==
    IF str # "" /\ Ch(str, 1) \in {"-", "+"} THEN Tail(str) ELSE str

FloatIntPart(str) == Slice(FloatBody(str), 1, DigitRun(FloatBody(str), 1))

FloatRest(str) ==
    Slice(FloatBody(str), DigitRun(FloatBody(str), 1) + 1, Len(FloatBody(str)))

FloatFracPart(str) ==
    IF FloatRest(str) # "" /\ Ch(FloatRest(str), 1) = "."
    THEN Tail(FloatRest(str))
    ELSE ""

float_ok(str) ==
    LET t == strip(str) IN
    /\ FloatRest(t) = "" \/ Ch(FloatRest(t), 1) = "."
    /\ DigitRun(FloatFracPart(t), 1) = Len(FloatFracPart(t))
    /\ Len(FloatIntPart(t)) + Len(FloatFracPart(t)) > 0

float_value(str) ==
    LET t == strip(str)
        m == DigitsValue(FloatIntPart(t) \o FloatFracPart(t))
    IN  Float(IF t # "" /\ Ch(t, 1) = "-" THEN 0 - m ELSE m, Len(FloatFracPart(t)))

abs(f) == Float(IF f.mant < 0 THEN 0 - f.mant ELSE f.mant, f.scale)

\* s.strip().replace(" ", "").replace("\xa0", "").replace(",", ".")
amount_text(s) == replace(replace(replace(strip(s), " ", ""), NBSP, ""), ",", ".")

\* parse_french_amount without the removal of non-breaking spaces
parse_french_amount_keeps_nbsp(s) ==
    LET text == replace(replace(strip(s), " ", ""), ",", ".") IN
    IF s = "" \/ strip(s) = "" THEN None
    ELSE IF float_ok(text) THEN abs(float_value(text))
    ELSE None

parse_french_amount(s) ==
    IF s = "" \/ strip(s) = "" THEN None
    ELSE IF float_ok(amount_text(s)) THEN abs(float_value(amount_text(s)))
    ELSE None

\* The test with "val >= 0": a zero amount passes
IsPositive_or_zero(val) == val # None /\ val.mant >= 0

\* "val is not None and val > 0" of the callers, for a returned value
IsPositive(val) == val # None /\ val.mant > 0

(***************************************************************************)
(* The strings parse_french_amount is applied to                           *)
(***************************************************************************)

MaxAmountLen == 4

AmountAlphabet == {"0", "1", " ", NBSP, ",", ".", "-", "a"}

RECURSIVE StringsUpTo(_, _)
StringsUpTo(alphabet, n) ==
    IF n = 0 THEN {""}
    ELSE LET shorter == StringsUpTo(alphabet, n - 1)
         IN  shorter \cup {str \o c : str \in shorter, c \in alphabet}

AmountSamples ==
    { "1 234 567,89", "8 898 000,00", "1" \o NBSP \o "234,50", "12,34,56",
      "abc", "  ", "1\t234,00", "-1 234,56", "12 34,56", "1234,56", "0,00" }

AmountInputs == StringsUpTo(AmountAlphabet, MaxAmountLen) \cup AmountSamples

\* The other components are not running.
InvestIdle ==
    /\ inv_mode = "auto"
    /\ inv_sdk = TRUE
    /\ inv_pages = << >>
    /\ inv_i = 0
    /\ inv_use_llm = FALSE
    /\ inv_failed = 0
    /\ inv_projets = << >>
    /\ inv_warnings = << >>
    /\ inv_call = [op |-> "none"]
    /\ inv_quota = FALSE
    /\ inv_streak = 0
    /\ inv_pc = "idle"

SimilarIdle ==
    /\ sim_pdf = << >>
    /\ sim_bq = ""
    /\ sim_ret = None
    /\ sim_pc = "idle"

EnrichIdle ==
    /\ en_script = ""
    /\ en_rows = << >>
    /\ en_file = << >>
    /\ en_cache = << >>
    /\ en_loaded = << >>
    /\ en_to_process = << >>
    /\ en_i = 0
    /\ en_call = [op |-> "none"]
    /\ en_done = << >>
    /\ en_runs = 0
    /\ en_pc = "idle"

YearsIdle ==
    /\ yr_script = ""
    /\ yr_all = FALSE
    /\ yr_years = << >>
    /\ yr_cached = {}
    /\ yr_i = 0
    /\ yr_extracted = << >>
    /\ yr_logged = << >>
    /\ yr_ret = None
    /\ yr_pc = "idle"

GeminiIdle ==
    /\ gem_script = ""
    /\ gem_key = FALSE
    /\ gem_posts = << >>
    /\ gem_slept = << >>
    /\ gem_ret = None
    /\ gem_pc = "idle"

ApIdle ==
    /\ ap_file = << >>
    /\ ap_lieux = << >>
    /\ ap_rows = << >>
    /\ ap_i = 0
    /\ ap_call = [op |-> "none"]
    /\ ap_pc = "idle"

GeoIdle ==
    /\ complet_file = None
    /\ lieux_connus = << >>
    /\ geo_cache_file = None
    /\ geo_cache_run = << >>
    /\ projects = << >>
    /\ candidates = << >>
    /\ geo_i = 0
    /\ geo_stats = << >>
    /\ llm_dry_run = FALSE
    /\ geo_call = [op |-> "none"]
    /\ geo_ret = None
    /\ geo_runs = 0
    /\ geo_pc = "idle"

MergeIdle ==
    /\ il_file = None
    /\ bq_file = None
    /\ arg_dry_run = FALSE
    /\ merge_ret = None
    /\ out_file = None
    /\ merge_pc = "idle"

ExtractIdle ==
    /\ doc = << >>
    /\ croisee_pages = << >>
    /\ nv_pages = << >>
    /\ pi = 0
    /\ nvi = 0
    /\ prev_sens = NoSens
    /\ all_lines = << >>
    /\ page_call = None
    /\ nv_call = None
    /\ csv = None
    /\ ext_pc = "idle"

CodesIdle ==
    /\ codes_text = << >>
    /\ codes_seen = << >>
    /\ codes_ret = << >>
    /\ codes_total = FALSE
    /\ codes_pc = "idle"

AmountIdle ==
    /\ amount_s = ""
    /\ amount_ret = None
    /\ amount_pc = "idle"

AmountInit ==
    /\ InvestIdle
    /\ SimilarIdle
    /\ EnrichIdle
    /\ YearsIdle
    /\ GeminiIdle
    /\ ApIdle
    /\ MergeIdle
    /\ GeoIdle
    /\ CodesIdle
    /\ ExtractIdle
    /\ amount_s \in AmountInputs
    /\ amount_ret = None
    /\ amount_pc = "call"

\* The call parse_french_amount(amount_s). float()'s ValueError is caught in
\* the body, so the call always returns.
ParseAmount ==
    /\ amount_pc = "call"
    /\ amount_ret' = parse_french_amount(amount_s)
    /\ amount_pc' = "done"
    /\ UNCHANGED <<amount_s, codesVars, extractVars, mergeVars, geoVars, geminiVars, apVars, yearsVars, enrichVars, similarVars, investVars>>

AmountNext == ParseAmount

SpecAmount == AmountInit /\ [][AmountNext]_vars

(***************************************************************************)
(* extract_func_codes_from_text                                            *)
(***************************************************************************)

\* The header is looked for in the first lines of the page.
HeaderLines == 20

\* FUNC_CODE_RE = (\d{2,3})-(\d{2,4}) tried at position i of a line: two or
\* three digits (greedy), "-", two to four digits (greedy). With three or
\* more digits at i the shorter first group cannot be followed by "-".
FuncCodeLead(line, i) ==
    IF DigitRun(line, i) >= 3 THEN 3 ELSE DigitRun(line, i)

FuncCodeSubLen(line, i) ==
    IF DigitRun(line, i + FuncCodeLead(line, i) + 1) >= 4 THEN 4
    ELSE DigitRun(line, i + FuncCodeLead(line, i) + 1)

FuncCodeMatchesAt(line, i) ==
    /\ FuncCodeLead(line, i) >= 2
    /\ i + FuncCodeLead(line, i) <= Len(line)
    /\ Ch(line, i + FuncCodeLead(line, i)) = "-"
    /\ FuncCodeSubLen(line, i) >= 2

\* m.group(2) of every match of FUNC_CODE_RE.finditer(line), from position i
RECURSIVE FuncCodeSubs(_, _)
FuncCodeSubs(line, i) ==
    LET starts == {s \in i..Len(line) : FuncCodeMatchesAt(line, s)} IN
    IF starts = {} THEN << >>
    ELSE LET s == CHOOSE x \in starts : \A y \in starts : x <= y
             from == s + FuncCodeLead(line, s) + 1
             to == from + FuncCodeSubLen(line, s) - 1
         IN  <<Slice(line, from, to)>> \o FuncCodeSubs(line, to + 1)

\* seen after the sub-codes subs have been read: each appended if not in seen
RECURSIVE AppendUnseen(_, _)
AppendUnseen(seen, subs) ==
    IF subs = << >> THEN seen
    ELSE AppendUnseen(IF subs[1] \in Range(seen) THEN seen ELSE Append(seen, subs[1]),
                      Tail(subs))

\* seen after the loop over the header lines
RECURSIVE SeenCodes(_, _)
SeenCodes(seen, lines) ==
    IF lines = << >> THEN seen
    ELSE SeenCodes(AppendUnseen(seen, FuncCodeSubs(lines[1], 1)), Tail(lines))

\* The filter without "other != code": a code is a prefix of itself
leaf_codes_no_self_test(seen) ==
    LET IsLeaf(code) == ~\E other \in Range(seen) : startswith(other, code)
    IN  SelectSeq(seen, IsLeaf)

\* leaf_codes: the codes of seen that are not a prefix of another code of seen
leaf_codes(seen) ==
    LET IsLeaf(code) ==
            ~\E other \in Range(seen) : startswith(other, code) /\ other # code
    IN  SelectSeq(seen, IsLeaf)

\* re.search(r'\bT$', l.strip()): the line ends with a "T" that starts a word
IsWordChar(c) ==
    \/ IsDigit(c)
    \/ c = "_"
    \/ \E i \in 1..Len(LowerLetters) : c \in {Ch(LowerLetters, i), Ch(UpperLetters, i)}

EndsWithLoneT(line) ==
    LET l == strip(line) IN
    /\ l # ""
    /\ Ch(l, Len(l)) = "T"
    /\ Len(l) = 1 \/ ~IsWordChar(Ch(l, Len(l) - 1))

\* has_total: "TOTAL DU CHAPITRE" or "TOTAL DU" in the joined header, or a
\* lone "T" ending one of the first 18 lines with "CHAPITRE" in one of the
\* three lines after it
has_total(lines) ==
    LET header_joined == upper(join_stripped(lines)) IN
    \/ contains(header_joined, "TOTAL DU CHAPITRE")
    \/ contains(header_joined, "TOTAL DU")
    \/ \E i \in 1..Len(lines) :
          /\ i <= 18
          /\ EndsWithLoneT(lines[i])
          /\ \E j \in (i + 1)..(i + 3) :
                j <= Len(lines) /\ contains(upper(lines[j]), "CHAPITRE")

\* lines = text.split("\n")[:20]
header_of(text) ==
    Slice(text, 1, IF Len(text) < HeaderLines THEN Len(text) ELSE HeaderLines)

\* extract_func_codes_from_text(text), as [leaf_codes, has_total]
extract_func_codes_from_text(text) ==
    [ seen |-> SeenCodes(<< >>, header_of(text)),
      leaf_codes |-> leaf_codes(SeenCodes(<< >>, header_of(text))),
      has_total |-> has_total(header_of(text)) ]

\* Header lines of the pages: group codes beside their sub-codes, codes
\* repeated, codes of four digits, the total column in one piece and split
MaxHeaderLines == 2

HeaderLineSamples ==
    { "90-02 90-020 90-021", "93-020 93-021", "90-021 90-02", "90-10 90-020",
      "FONCTION 0 - Services TOTAL DU", "CHAPITRE", "A1.900 T",
      "93-0341 93-03 93-034", "900-02 1234-56 9-12" }

RECURSIVE SeqsUpTo(_, _)
SeqsUpTo(S, n) ==
    IF n = 0 THEN {<< >>}
    ELSE LET shorter == SeqsUpTo(S, n - 1)
         IN  shorter \cup {Append(seq, x) : seq \in shorter, x \in S}

CodesInit ==
    /\ InvestIdle
    /\ SimilarIdle
    /\ EnrichIdle
    /\ YearsIdle
    /\ GeminiIdle
    /\ ApIdle
    /\ MergeIdle
    /\ GeoIdle
    /\ AmountIdle
    /\ ExtractIdle
    /\ codes_text \in SeqsUpTo(HeaderLineSamples, MaxHeaderLines)
    /\ codes_seen = << >>
    /\ codes_ret = << >>
    /\ codes_total = FALSE
    /\ codes_pc = "call"

\* The call extract_func_codes_from_text(codes_text)
ExtractFuncCodes ==
    /\ codes_pc = "call"
    /\ codes_seen' = extract_func_codes_from_text(codes_text).seen
    /\ codes_ret' = extract_func_codes_from_text(codes_text).leaf_codes
    /\ codes_total' = extract_func_codes_from_text(codes_text).has_total
    /\ codes_pc' = "done"
    /\ UNCHANGED <<codes_text, amountVars, extractVars, mergeVars, geoVars, geminiVars, apVars, yearsVars, enrichVars, similarVars, investVars>>

CodesNext == ExtractFuncCodes

SpecCodes == CodesInit /\ [][CodesNext]_vars

(***************************************************************************)
(* Regular expressions of the page scan and of the line parsers            *)
(***************************************************************************)

\* AMOUNT_RE = (?<!\d)((?:\d{1,3}(?:\s\d{3})*),\d{2})(?!\d) tried at
\* position i of str. After one to three digits not preceded by a digit,
\* the groups "\s\d{3}" are taken while they match (a group left out would
\* leave a whitespace where the comma must be), then ",", exactly two digits.
RECURSIVE AmountGroupsEnd(_, _)
AmountGroupsEnd(str, p) ==
    IF p <= Len(str) /\ IsSpace(Ch(str, p)) /\ DigitRun(str, p + 1) >= 3
    THEN AmountGroupsEnd(str, p + 4)
    ELSE p

\* the position of the last character of the match at i, 0 when none
AmountMatchEnd(str, i) ==
    LET comma == AmountGroupsEnd(str, i + DigitRun(str, i)) IN
    IF /\ i = 1 \/ ~IsDigit(Ch(str, i - 1))
       /\ DigitRun(str, i) \in 1..3
       /\ comma <= Len(str)
       /\ Ch(str, comma) = ","
       /\ DigitRun(str, comma + 1) = 2
    THEN comma + 2
    ELSE 0

\* the matches of AMOUNT_RE in str from position i, as <<first, last>>
RECURSIVE AmountMatches(_, _)
AmountMatches(str, i) ==
    LET starts == {s \in i..Len(str) : AmountMatchEnd(str, s) > 0} IN
    IF starts = {} THEN << >>
    ELSE LET s == CHOOSE x \in starts : \A y \in starts : x <= y
         IN  <<(<<s, AmountMatchEnd(str, s)>>)>>
             \o AmountMatches(str, AmountMatchEnd(str, s) + 1)

\* AMOUNT_RE.findall(str)
AMOUNT_RE_findall(str) ==
    LET ms == AmountMatches(str, 1)
    IN  [k \in 1..Len(ms) |-> Slice(str, ms[k][1], ms[k][2])]

\* re.match(r'^(\d{min,max})\s', str): group 1, "" when there is no match
NatureCodeMatch(str, min, max) ==
    LET run == DigitRun(str, 1) IN
    IF run >= min /\ run <= max /\ run < Len(str) /\ IsSpace(Ch(str, run + 1))
    THEN Slice(str, 1, run)
    ELSE ""

\* NATURE_LINE_RE.search(text): three digits and a whitespace at the start
\* of a line (re.MULTILINE)
NATURE_LINE_RE_search(text) ==
    \E i \in 1..Len(text) :
        /\ i = 1 \/ Ch(text, i - 1) = "\n"
        /\ DigitRun(text, i) >= 3
        /\ i + 3 <= Len(text)
        /\ IsSpace(Ch(text, i + 3))

\* FUNC_CODE_RE.search(text)
FUNC_CODE_RE_search(text) == \E i \in 1..Len(text) : FuncCodeMatchesAt(text, i)

\* text.split("\n")
RECURSIVE split_lines(_)
split_lines(text) ==
    LET breaks == {i \in 1..Len(text) : Ch(text, i) = "\n"} IN
    IF breaks # {}
    THEN LET nl == Min(breaks)
         IN  <<Slice(text, 1, nl - 1)>> \o split_lines(Slice(text, nl + 1, Len(text)))
    ELSE <<text>>

\* text[:n]
Prefix(text, n) == Slice(text, 1, IF Len(text) < n THEN Len(text) ELSE n)

\* the number of whitespace characters of str from position i
RECURSIVE SpaceRun(_, _)
SpaceRun(str, i) ==
    IF i <= Len(str) /\ IsSpace(Ch(str, i)) THEN 1 + SpaceRun(str, i + 1) ELSE 0

\* the number of characters of str from position i that are no whitespace
RECURSIVE NonSpaceRun(_, _)
NonSpaceRun(str, i) ==
    IF i <= Len(str) /\ ~IsSpace(Ch(str, i)) THEN 1 + NonSpaceRun(str, i + 1) ELSE 0

\* U+2013, the en dash of the headers; "~" stands for it, as a string of this
\* module holds Latin-1 characters only
EnDash == "~"

\* the character class of the en dash and the hyphen
Dashes == {EnDash, "-"}

\* (A[12]\.\d{3}(?:-\d)?) tried at position i: the last position, 0 when none
ChapitreRefEnd(text, i) ==
    IF /\ i + 5 <= Len(text)
       /\ Ch(text, i) = "A"
       /\ Ch(text, i + 1) \in {"1", "2"}
       /\ Ch(text, i + 2) = "."
       /\ DigitRun(text, i + 3) >= 3
    THEN IF i + 7 <= Len(text) /\ Ch(text, i + 6) = "-" /\ IsDigit(Ch(text, i + 7))
         THEN i + 7
         ELSE i + 5
    ELSE 0

\* re.search(r'(A[12]\.\d{3}(?:-\d)?)', text).group(1), "" when no match
ChapitreRef(text) ==
    LET starts == {i \in 1..Len(text) : ChapitreRefEnd(text, i) > 0} IN
    IF starts # {}
    THEN Slice(text, Min(starts), ChapitreRefEnd(text, Min(starts)))
    ELSE ""

\* The position of the dash of "\s*[~\-]\s*(.+)" read from position p of
\* line, 0 when it does not match there: whitespace, a dash, one character
\* at least.
DashAfter(line, p) ==
    LET d == p + SpaceRun(line, p) IN
    IF d < Len(line) /\ Ch(line, d) \in Dashes THEN d ELSE 0

\* r'FONCTION\s+\S+\s*[~\-]\s*(.+)' (IGNORECASE) tried with FONCTION at
\* position p: the position of the dash, 0 when none. \S+ is greedy: the
\* whole word when a dash follows it, else its longest part that a dash
\* follows.
FonctionDash(line, p) ==
    LET word == p + 8 + SpaceRun(line, p + 8)
        len == NonSpaceRun(line, word)
        inner == {k \in 1..(len - 1) :
                      Ch(line, word + k) \in Dashes /\ word + k < Len(line)}
    IN  IF /\ Ch(line, p) \in {"F", "f"}
           /\ upper(Slice(line, p, p + 7)) = "FONCTION"
           /\ SpaceRun(line, p + 8) >= 1
           /\ len >= 1
        THEN IF DashAfter(line, word + len) > 0 THEN DashAfter(line, word + len)
             ELSE IF inner # {}
             THEN word + (CHOOSE k \in inner : \A other \in inner : other <= k)
             ELSE 0
        ELSE 0

\* r'CHAPITRE\s+\d+\s*[~\-]\s*(.+)' tried with CHAPITRE at position p: the
\* position of the dash, 0 when none. With digits = 3 the number has exactly
\* three digits (\d{3}), with digits = 0 any number of them (\d+).
ChapitreDash(line, p, digits, ignore_case) ==
    LET number == p + 8 + SpaceRun(line, p + 8)
        len == DigitRun(line, number)
        word == Slice(line, p, p + 7)
    IN  IF /\ Ch(line, p) \in {"C", "c"}
           /\ (IF ignore_case THEN upper(word) ELSE word) = "CHAPITRE"
           /\ SpaceRun(line, p + 8) >= 1
           /\ len >= 1
        THEN IF digits = 0 THEN DashAfter(line, number + len)
             ELSE IF len >= digits THEN DashAfter(line, number + digits)
             ELSE 0
        ELSE 0

\* the text of (.+) after the dash at position d, to the end of its line
AfterDash(line, d) ==
    LET rest == Slice(line, d + 1, Len(line)) IN split_lines(rest)[1]

\* group 1 of the FONCTION pattern, stripped; None when there is no match
fonc_match(line) ==
    LET starts == {p \in 1..Len(line) : FonctionDash(line, p) > 0} IN
    IF starts = {} THEN None
    ELSE [libelle |-> strip(AfterDash(line, FonctionDash(line, Min(starts))))]

\* group 1 of the CHAPITRE pattern of the labeled pages, stripped
chap_match(line) ==
    LET starts == {p \in 1..Len(line) : ChapitreDash(line, p, 0, TRUE) > 0} IN
    IF starts = {} THEN None
    ELSE [libelle |-> strip(AfterDash(line, ChapitreDash(line, Min(starts), 0, TRUE)))]

\* the label of the first line that holds a FONCTION or a CHAPITRE header
RECURSIVE header_libelle(_)
header_libelle(lines) ==
    IF lines = << >> THEN ""
    ELSE IF fonc_match(lines[1]) # None THEN fonc_match(lines[1]).libelle
    ELSE IF chap_match(lines[1]) # None THEN chap_match(lines[1]).libelle
    ELSE header_libelle(Tail(lines))

\* re.sub(r'\s*\(suite\s*\d*\)\s*$', '', libelle, flags=re.IGNORECASE)
strip_suite(libelle) ==
    LET body == rstrip(libelle)
        Opens(i) ==
            /\ i + 6 <= Len(body)
            /\ Ch(body, i) = "("
            /\ Ch(body, Len(body)) = ")"
            /\ upper(Slice(body, i, i + 5)) = "(SUITE"
            /\ LET digits == i + 6 + SpaceRun(body, i + 6)
               IN  digits + DigitRun(body, digits) = Len(body)
        opens == {i \in 1..Len(body) : Opens(i)}
    IN  IF opens # {}
        THEN rstrip(Slice(body, 1, Min(opens) - 1))
        ELSE libelle

(***************************************************************************)
(* Page scan: find_all_croisee_pages and find_non_ventilated_pages         *)
(*                                                                         *)
(* A document is the sequence of its pages' texts as fitz reads them.      *)
(* Page indexes are those of the source, from 0: page i is pdf[i + 1].     *)
(***************************************************************************)

\* the windows text[:600], text[:500] and text[:800] of the scans
LabelWindow == 600

FuncWindow == 500

NonVentWindow == 800

\* The section of a labeled page, None when the page is not one: both
\* markers, then a section name (INVESTISSEMENT is looked for first).
labeled_section(text) ==
    LET up == upper(Prefix(text, LabelWindow)) IN
    IF ~contains(up, "PRESENTATION CROISEE") THEN None
    ELSE IF /\ ~contains(up, "PRESENTATION DETAILLEE")
            /\ ~contains(up, "PRÉSENTATION DÉTAILLÉE") THEN None
    ELSE IF contains(up, "INVESTISSEMENT") THEN [section |-> "Investissement"]
    ELSE IF contains(up, "FONCTIONNEMENT") THEN [section |-> "Fonctionnement"]
    ELSE None

\* Phase 1 for page i: its PageInfo, None when the page is not labeled
labeled_page(pdf, i) ==
    LET text == Prefix(pdf[i + 1], LabelWindow)
        chapitre_ref == ChapitreRef(text)
    IN  IF labeled_section(pdf[i + 1]) = None \/ chapitre_ref = "" THEN None
        ELSE [ page_idx |-> i,
               is_continuation |-> FALSE,
               section |-> labeled_section(pdf[i + 1]).section,
               chapitre_ref |-> chapitre_ref,
               \* chapitre_ref.split(".")[1]
               chapitre_code |-> Slice(chapitre_ref, 4, Len(chapitre_ref)),
               chapitre_libelle |-> strip_suite(header_libelle(split_lines(text))) ]

\* Phase 1: labeled_pages, as the sequence that holds at i + 1 the PageInfo
\* of page i, None for a page that is not labeled
RECURSIVE labeled_upto(_, _)
labeled_upto(pdf, n) ==
    IF n = 0 THEN << >>
    ELSE Append(labeled_upto(pdf, n - 1), labeled_page(pdf, n - 1))

labeled_pages(pdf) == labeled_upto(pdf, Len(pdf))

\* the keys of labeled_pages
labeled_keys(labeled) == {i \in 0..(Len(labeled) - 1) : labeled[i + 1] # None}

\* The continuation inheriting from the first labeled page of the document
\* in place of the nearest one before it
continuation_page_from_first(labeled, i) ==
    LET ctx == labeled[Min({j \in labeled_keys(labeled) : j < i}) + 1]
    IN  [ page_idx |-> i,
          is_continuation |-> TRUE,
          section |-> ctx.section,
          chapitre_ref |-> ctx.chapitre_ref,
          chapitre_code |-> ctx.chapitre_code,
          chapitre_libelle |-> ctx.chapitre_libelle ]

\* Phase 2 for an unlabeled page i between the first and the last labeled
\* page that holds function codes and nature lines: the walk "for prev in
\* range(i - 1, first_page - 1, -1)" stops at the closest labeled page
\* before i. (There is one: first_page is labeled.)
continuation_page(labeled, i) ==
    LET ctx == labeled[Max({j \in labeled_keys(labeled) : j < i}) + 1]
    IN  [ page_idx |-> i,
          is_continuation |-> TRUE,
          section |-> ctx.section,
          chapitre_ref |-> ctx.chapitre_ref,
          chapitre_code |-> ctx.chapitre_code,
          chapitre_libelle |-> ctx.chapitre_libelle ]

is_continuation_text(text) ==
    /\ FUNC_CODE_RE_search(Prefix(text, FuncWindow))
    /\ NATURE_LINE_RE_search(text)

\* all_pages of pages i..last_page, sorted by page_idx
RECURSIVE pages_from(_, _, _, _)
pages_from(pdf, labeled, i, last_page) ==
    IF i > last_page THEN << >>
    ELSE (IF labeled[i + 1] # None THEN <<labeled[i + 1]>>
          ELSE IF is_continuation_text(pdf[i + 1])
          THEN <<continuation_page(labeled, i)>>
          ELSE << >>)
         \o pages_from(pdf, labeled, i + 1, last_page)

find_all_croisee_pages(pdf) ==
    LET labeled == labeled_pages(pdf) IN
    IF labeled_keys(labeled) = {} THEN << >>
    ELSE pages_from(pdf, labeled, Min(labeled_keys(labeled)),
                    Max(labeled_keys(labeled)))

\* r'CHAPITRE\s+(\d{3})\s*[~\-]\s*(.+)' searched in text[:800]: the
\* position of CHAPITRE, 0 when there is no match
nonvent_chapitre_at(text) ==
    LET starts == {p \in 1..Len(text) : ChapitreDash(text, p, 3, FALSE) > 0} IN
    IF starts = {} THEN 0 ELSE Min(starts)

\* the NonVentPageInfo of page i, None when the page is not one
non_ventilated_page(pdf, i) ==
    LET text == Prefix(pdf[i + 1], NonVentWindow)
        up == upper(text)
        p == nonvent_chapitre_at(text)
        number == p + 8 + SpaceRun(text, p + 8)
        chapitre_code == Slice(text, number, number + 2)
        dash == ChapitreDash(text, p, 3, FALSE)
        libelle == split_lines(Slice(text, dash + 1 + SpaceRun(text, dash + 1),
                                     Len(text)))[1]
        \* \s* gives back one whitespace when (.+) would be empty without it
        group2 == IF libelle = "" THEN Ch(text, dash + SpaceRun(text, dash + 1))
                  ELSE libelle
    IN  IF ~contains(up, "NON VENTIL") \/ ~contains(up, "VOTE DU BUDGET") THEN None
        ELSE IF p = 0 THEN None
        ELSE IF startswith(chapitre_code, "92")
        THEN [ page_idx |-> i, section |-> "Investissement",
               chapitre_code |-> chapitre_code, chapitre_libelle |-> strip(group2) ]
        ELSE IF startswith(chapitre_code, "94")
        THEN [ page_idx |-> i, section |-> "Fonctionnement",
               chapitre_code |-> chapitre_code, chapitre_libelle |-> strip(group2) ]
        ELSE None

RECURSIVE nv_pages_from(_, _)
nv_pages_from(pdf, i) ==
    IF i >= Len(pdf) THEN << >>
    ELSE (IF non_ventilated_page(pdf, i) # None
          THEN <<non_ventilated_page(pdf, i)>> ELSE << >>)
         \o nv_pages_from(pdf, i + 1)

find_non_ventilated_pages(pdf) == nv_pages_from(pdf, 0)

(***************************************************************************)
(* Line extraction: parse_page_data and parse_non_ventilated_page          *)
(*                                                                         *)
(* A page text is the sequence of its lines as pdfplumber reads them       *)
(* (page_text.split("\n")); << >> is the empty text.                       *)
(***************************************************************************)

\* BudgetVoteLine(...) for a page of either family
BudgetVoteLine(annee, page_info, sens, nature_code, nature_libelle, fonction_code, montant, pdf_name) ==
    [ annee |-> annee,
      section |-> page_info.section,
      sens_flux |-> sens,
      chapitre_code |-> page_info.chapitre_code,
      chapitre_libelle |-> page_info.chapitre_libelle,
      nature_code |-> nature_code,
      nature_libelle |-> nature_libelle,
      fonction_code |-> fonction_code,
      montant |-> montant,
      source_page |-> page_info.page_idx + 1,
      source_pdf |-> pdf_name ]

\* extract_nature_libelle(line, nature_code): the text between the nature
\* code and the first amount
extract_nature_libelle(line, nature_code) ==
    LET rest == strip(Slice(line, Len(nature_code) + 1, Len(line)))
        ms == AmountMatches(rest, 1)
    IN  IF ms # << >> THEN strip(Slice(rest, 1, ms[1][1] - 1)) ELSE strip(rest)

\* stripped.startswith("DEPENSES") or stripped.startswith("DÉPENSES")
is_depenses(stripped) ==
    startswith(stripped, "DEPENSES") \/ startswith(stripped, "DÉPENSES")

is_recettes(stripped) == startswith(stripped, "RECETTES")

\* The data-driven confirmation of the total column: the first line that is
\* a direction marker or a nature line has n_funcs + 1 amounts.
RECURSIVE probe_total(_, _)
probe_total(lines, n_funcs) ==
    IF lines = << >> THEN FALSE
    ELSE LET probe_stripped == strip(lines[1]) IN
         IF \/ is_depenses(probe_stripped)
            \/ is_recettes(probe_stripped)
            \/ NatureCodeMatch(probe_stripped, 3, 3) # ""
         THEN Len(AMOUNT_RE_findall(probe_stripped)) = n_funcs + 1
         ELSE probe_total(Tail(lines), n_funcs)

\* func_codes, has_total_col, n_funcs and n_expected of a page
layout_record(func_codes, has_total_col) ==
    [ func_codes |-> func_codes,
      n_funcs |-> Len(func_codes),
      has_total_col |-> has_total_col,
      n_expected |-> IF has_total_col THEN Len(func_codes) + 1 ELSE Len(func_codes) ]

\* has_total_col: the header says TOTAL, or the probe confirms the column
layout_with_header(header, page_text) ==
    layout_record(header.leaf_codes,
                  header.has_total \/ probe_total(page_text, Len(header.leaf_codes)))

page_layout(page_text) ==
    layout_with_header(extract_func_codes_from_text(page_text), page_text)

\* the first amounts taken for the columns, whatever their number
col_amounts_left(amounts, layout) ==
    [amounts |-> Slice(amounts, 1, layout.n_funcs), offset |-> 0]

\* col_amounts of a nature line and the column of its first amount
col_amounts(amounts, layout) ==
    LET n == Len(amounts)
        n_funcs == layout.n_funcs
    IN  IF layout.has_total_col /\ n >= layout.n_expected
        THEN [amounts |-> Slice(amounts, 1, n_funcs), offset |-> 0]
        ELSE IF layout.has_total_col /\ n = n_funcs
        THEN [amounts |-> Slice(amounts, 1, n_funcs), offset |-> 0]
        ELSE IF n > n_funcs
        THEN [amounts |-> Slice(amounts, n - n_funcs + 1, n), offset |-> 0]
        ELSE IF n = n_funcs
        THEN [amounts |-> amounts, offset |-> 0]
        ELSE [amounts |-> amounts, offset |-> n_funcs - n]

\* the row appended for the value val of column col_idx (from 1), if any
row_of_amount(val, col_idx, func_codes, page_info, annee, sens, nature, pdf_name) ==
    IF col_idx <= Len(func_codes) /\ IsPositive(val)
    THEN << BudgetVoteLine(annee, page_info, sens, nature.code, nature.libelle,
                           func_codes[col_idx], val, pdf_name) >>
    ELSE << >>

\* The loop over col_amounts from its amount i (from 1): a row for every
\* amount that has a column and whose value is not None and is > 0.
RECURSIVE rows_of_amounts(_, _, _, _, _, _, _, _)
rows_of_amounts(cols, i, func_codes, page_info, annee, sens, nature, pdf_name) ==
    IF i > Len(cols.amounts) THEN << >>
    ELSE row_of_amount(parse_french_amount(cols.amounts[i]), cols.offset + i,
                       func_codes, page_info, annee, sens, nature, pdf_name)
         \o rows_of_amounts(cols, i + 1, func_codes, page_info, annee, sens,
                            nature, pdf_name)

\* a line that is no direction marker, whose nature code is nature_code
\* ("" when it has none)
nature_line(stripped, nature_code, sens, layout, page_info, annee, pdf_name) ==
    IF nature_code = "" \/ sens = NoSens THEN [sens |-> sens, rows |-> << >>]
    ELSE [ sens |-> sens,
           rows |-> rows_of_amounts(
                        col_amounts(AMOUNT_RE_findall(stripped), layout), 1,
                        layout.func_codes, page_info, annee, sens,
                        [ code |-> nature_code,
                          libelle |-> extract_nature_libelle(stripped, nature_code) ],
                        pdf_name) ]

stripped_line(stripped, sens, layout, page_info, annee, pdf_name) ==
    IF is_depenses(stripped) THEN [sens |-> Depense, rows |-> << >>]
    ELSE IF is_recettes(stripped) THEN [sens |-> Recette, rows |-> << >>]
    ELSE nature_line(stripped, NatureCodeMatch(stripped, 3, 3), sens, layout,
                     page_info, annee, pdf_name)

\* One turn of the loop over the lines of parse_page_data: the direction
\* after the line and the rows it appends to results.
page_line(line, sens, layout, page_info, annee, pdf_name) ==
    stripped_line(strip(line), sens, layout, page_info, annee, pdf_name)

\* the turns of the loop over lines, from direction sens: for each line the
\* direction after it and the rows it appended
RECURSIVE page_trace(_, _, _, _, _, _)
RECURSIVE trace_after(_, _, _, _, _, _)
page_trace(lines, sens, layout, page_info, annee, pdf_name) ==
    IF lines = << >> THEN << >>
    ELSE trace_after(page_line(lines[1], sens, layout, page_info, annee, pdf_name),
                     Tail(lines), layout, page_info, annee, pdf_name)

\* the turn of one line, then the turns of the lines after it
trace_after(turn, lines, layout, page_info, annee, pdf_name) ==
    <<turn>> \o page_trace(lines, turn.sens, layout, page_info, annee, pdf_name)

\* the rows of a trace, in order
RECURSIVE trace_rows(_)
trace_rows(trace) ==
    IF trace = << >> THEN << >> ELSE trace[1].rows \o trace_rows(Tail(trace))

\* sens = prev_sens if page_info.is_continuation else None
start_sens(page_info, carried_sens) ==
    IF page_info.is_continuation THEN carried_sens ELSE NoSens

\* what the loop over the lines returns: results and sens, with the
\* direction it started from and its turns
page_result(start, trace) ==
    [ results |-> trace_rows(trace),
      sens |-> IF trace = << >> THEN start ELSE trace[Len(trace)].sens,
      start |-> start,
      trace |-> trace ]

\* the early returns "[], prev_sens"
page_unread(carried_sens) ==
    [results |-> << >>, sens |-> carried_sens, start |-> carried_sens, trace |-> << >>]

page_with_layout(page_text, layout, start, page_info, annee, pdf_name, carried_sens) ==
    IF layout.n_funcs = 0 THEN page_unread(carried_sens)
    ELSE page_result(start, page_trace(page_text, start, layout, page_info,
                                       annee, pdf_name))

\* parse_page_data(page_text, page_info, annee, pdf_name, prev_sens): the
\* returned results and sens, with the direction the loop started from
\* (start) and its turns (trace).
parse_page_data(page_text, page_info, annee, pdf_name, carried_sens) ==
    IF page_text = << >> THEN page_unread(carried_sens)
    ELSE page_with_layout(page_text, page_layout(page_text),
                          start_sens(page_info, carried_sens), page_info, annee,
                          pdf_name, carried_sens)

\* re.match(r'^D[EÉ]PENSES', stripped)
nv_is_depenses(stripped) ==
    startswith(stripped, "DEPENSES") \/ startswith(stripped, "DÉPENSES")

\* The amount of a non-ventilated line, were it the first token
nv_amount_first(amounts) == amounts[1]

\* amounts[-1]: the last amount of the line (the TOTAL column)
nv_amount(amounts) == amounts[Len(amounts)]

\* the row of a nature line whose amount reads val, if any
nv_row(val, stripped, nature_code, sens, page_info, annee, pdf_name) ==
    IF ~IsPositive(val) THEN << >>
    ELSE << BudgetVoteLine(annee, page_info, sens, nature_code,
                           extract_nature_libelle(stripped, nature_code),
                           "", val, pdf_name) >>

\* a line that is no direction marker
nv_nature_line(stripped, nature_code, amounts, sens, page_info, annee, pdf_name) ==
    IF sens = NoSens \/ nature_code = "" \/ amounts = << >>
    THEN [sens |-> sens, rows |-> << >>]
    ELSE [ sens |-> sens,
           rows |-> nv_row(parse_french_amount(nv_amount(amounts)), stripped,
                           nature_code, sens, page_info, annee, pdf_name) ]

nv_stripped_line(stripped, sens, page_info, annee, pdf_name) ==
    IF nv_is_depenses(stripped) THEN [sens |-> Depense, rows |-> << >>]
    ELSE IF is_recettes(stripped) THEN [sens |-> Recette, rows |-> << >>]
    ELSE nv_nature_line(stripped, NatureCodeMatch(stripped, 3, 7),
                        AMOUNT_RE_findall(stripped), sens, page_info, annee,
                        pdf_name)

\* One turn of the loop over the lines of parse_non_ventilated_page
nv_line(line, sens, page_info, annee, pdf_name) ==
    nv_stripped_line(strip(line), sens, page_info, annee, pdf_name)

RECURSIVE nv_trace(_, _, _, _, _)
RECURSIVE nv_trace_after(_, _, _, _, _)
nv_trace(lines, sens, page_info, annee, pdf_name) ==
    IF lines = << >> THEN << >>
    ELSE nv_trace_after(nv_line(lines[1], sens, page_info, annee, pdf_name),
                        Tail(lines), page_info, annee, pdf_name)

nv_trace_after(turn, lines, page_info, annee, pdf_name) ==
    <<turn>> \o nv_trace(lines, turn.sens, page_info, annee, pdf_name)

\* parse_non_ventilated_page(page_text, page_info, annee, pdf_name)
parse_non_ventilated_page(page_text, page_info, annee, pdf_name) ==
    trace_rows(nv_trace(page_text, NoSens, page_info, annee, pdf_name))

(***************************************************************************)
(* extract_year: the scan, the pass over the ventilated pages, the pass    *)
(* over the non-ventilated pages, the seed file                            *)
(***************************************************************************)

\* the year and the file of the run (PDF_SOURCES)
Year == 2025

PdfName == "bp-2025-editique-premiere-parite-bg-weCs.pdf"

\* Pages as fitz reads them: a labeled page of the investment section, a
\* labeled page of the operating section whose label is a continuation
\* style header, a page with function codes and nature lines but no label,
\* a page with neither, a non-ventilated page.
PageLabeledInvest ==
    "IV - ANNEXES - PRESENTATION CROISEE\nSECTION D'INVESTISSEMENT - "
    \o "PRESENTATION DETAILLEE A1.900\nFONCTION 0 - Services generaux\n"
    \o "90-020 90-021\n203 Frais d'etudes 5,00 0,00"

PageLabeledFonct ==
    "IV - ANNEXES - PRESENTATION CROISEE\nSECTION DE FONCTIONNEMENT - "
    \o "PRÉSENTATION DÉTAILLÉE A2.930\nCHAPITRE 930 ~ Services generaux (suite 1)\n"
    \o "93-020 93-021\n604 Achats 5,00 0,00"

PageUnlabeledData == "90-020 90-021\n605 Travaux 3,00 0,00"

PageOther == "SOMMAIRE"

PageNonVentilated ==
    "III - VOTE DU BUDGET\nOPERATIONS NON VENTILEES\n"
    \o "CHAPITRE 923 - Dettes et autres operations financieres\n1641 Emprunts 9,00"

PageSamples ==
    { PageLabeledInvest, PageLabeledFonct, PageUnlabeledData, PageOther,
      PageNonVentilated }

MaxPages == 3

\* The documents: every sequence of at most MaxPages sample pages, the four
\* pages labeled, unlabeled, unlabeled, labeled, and four pages where the
\* unlabeled one comes after two labeled pages of different chapters.
DocSamples ==
    SeqsUpTo(PageSamples, MaxPages)
    \cup { <<PageLabeledInvest, PageUnlabeledData, PageUnlabeledData, PageLabeledFonct>>,
           <<PageLabeledInvest, PageLabeledFonct, PageUnlabeledData, PageLabeledInvest>> }

\* Page texts as pdfplumber reads them for a ventilated page: two columns
\* and a total column with both directions; a page without direction marker
\* holding a negative cell and an amount cut by a tab; a page whose line is
\* short of one amount; the empty text; a text without function codes; a
\* page whose line holds more amounts than columns, one of them zero.
TextBothDirections ==
    << "90-020 90-021 TOTAL DU CHAPITRE",
       "DEPENSES 5,00 0,00 5,00",
       "203 Frais d'etudes 5,00 0,00 5,00",
       "RECETTES 0,00 7,00 7,00",
       "131 Subventions 0,00 7,00 7,00" >>

TextNoMarker == << "90-020 90-021", "605 Travaux -3,00 1\t234,00" >>

TextShortLine == << "90-020 90-021", "RECETTES", "706 Prestations 1 234,00" >>

TextEmpty == << >>

TextNoCodes == << "SOMMAIRE", "604 Achats 5,00" >>

TextExtraAmounts ==
    << "90-02 90-020 90-021", "DÉPENSES", "606 Achats lot 2,50 1,00 2,00 0,00" >>

PageTextSamples ==
    { TextBothDirections, TextNoMarker, TextShortLine, TextEmpty, TextNoCodes,
      TextExtraAmounts }

\* Page texts of a non-ventilated page: five amounts on a line, the last
\* one positive, zero, negative; a line before any direction marker; a line
\* without amount; a long nature code.
NonVentTextTotals ==
    << "CHAPITRE 923 - Dettes",
       "1641 Emprunts en euros 1,00 2,00 3,00 4,00 9,00",
       "DEPENSES (3)",
       "1641 Emprunts en euros 1,00 2,00 3,00 4,00 9,00",
       "166 Refinancement 1,00 2,00 3,00 4,00 0,00",
       "RECETTES",
       "7391118 Autres restitutions 0,00 0,00 0,00 0,00 -6,00",
       "024 Produits des cessions" >>

NonVentTextSingle == << "RECETTES DE L'EXERCICE", "731 Impots 1 234,00", "73 Divers 5,00" >>

NonVentTextSamples == { NonVentTextTotals, NonVentTextSingle, << >> }

ExtractInit ==
    /\ InvestIdle
    /\ SimilarIdle
    /\ EnrichIdle
    /\ YearsIdle
    /\ GeminiIdle
    /\ ApIdle
    /\ MergeIdle
    /\ GeoIdle
    /\ AmountIdle
    /\ CodesIdle
    /\ doc \in DocSamples
    /\ croisee_pages = << >>
    /\ nv_pages = << >>
    /\ pi = 0
    /\ nvi = 0
    /\ prev_sens = NoSens
    /\ all_lines = << >>
    /\ page_call = None
    /\ nv_call = None
    /\ csv = None
    /\ ext_pc = "scan"

\* Phases 1 and 2 of extract_year: the two scans; the run ends there when
\* neither finds a page.
ScanPages ==
    /\ ext_pc = "scan"
    /\ croisee_pages' = find_all_croisee_pages(doc)
    /\ nv_pages' = find_non_ventilated_pages(doc)
    /\ ext_pc' = IF croisee_pages' = << >> /\ nv_pages' = << >>
                 THEN "done" ELSE "ventilated"
    /\ UNCHANGED <<doc, pi, nvi, prev_sens, all_lines, page_call, nv_call, csv>>
    /\ UNCHANGED <<amountVars, codesVars, mergeVars, geoVars, geminiVars, apVars, yearsVars, enrichVars, similarVars, investVars>>

\* The loop without the reset: the direction is carried into labeled pages
reset_sens_never(pages, index, sens) == sens

\* The reset after page pi (0-based): prev_sens becomes None when the next
\* page is a labeled one.
reset_sens(pages, index, sens) ==
    IF index + 1 < Len(pages) /\ ~pages[index + 2].is_continuation
    THEN NoSens ELSE sens

\* One turn of the loop over croisee_pages where the page text is read and
\* parsed: the rows are appended, prev_sens is the returned direction, then
\* the reset.
ExtractPage ==
    /\ ext_pc = "ventilated"
    /\ pi < Len(croisee_pages)
    /\ \E page_text \in PageTextSamples :
       \E ret \in { parse_page_data(page_text, croisee_pages[pi + 1], Year,
                                     PdfName, prev_sens) } :
         /\ all_lines' = all_lines \o ret.results
         /\ prev_sens' = reset_sens(croisee_pages, pi, ret.sens)
         /\ page_call' = [ page_text |-> page_text,
                           page_info |-> croisee_pages[pi + 1],
                           prev_sens |-> prev_sens, raised |-> FALSE,
                           results |-> ret.results, sens |-> ret.sens,
                           start |-> ret.start, trace |-> ret.trace ]
    /\ pi' = pi + 1
    /\ UNCHANGED <<doc, croisee_pages, nv_pages, nvi, nv_call, csv, ext_pc>>
    /\ UNCHANGED <<amountVars, codesVars, mergeVars, geoVars, geminiVars, apVars, yearsVars, enrichVars, similarVars, investVars>>

\* One turn of the loop where reading the page raises: the exception is
\* caught, nothing is appended and prev_sens is not assigned, then the reset.
ExtractPageRaises ==
    /\ ext_pc = "ventilated"
    /\ pi < Len(croisee_pages)
    /\ prev_sens' = reset_sens(croisee_pages, pi, prev_sens)
    /\ page_call' = [ page_text |-> << >>, page_info |-> croisee_pages[pi + 1],
                      prev_sens |-> prev_sens, raised |-> TRUE,
                      results |-> << >>, sens |-> prev_sens,
                      start |-> prev_sens, trace |-> << >> ]
    /\ pi' = pi + 1
    /\ UNCHANGED <<doc, croisee_pages, nv_pages, nvi, all_lines, nv_call, csv, ext_pc>>
    /\ UNCHANGED <<amountVars, codesVars, mergeVars, geoVars, geminiVars, apVars, yearsVars, enrichVars, similarVars, investVars>>

\* The loop over croisee_pages has ended.
EndVentilated ==
    /\ ext_pc = "ventilated"
    /\ pi = Len(croisee_pages)
    /\ ext_pc' = "non_ventilated"
    /\ UNCHANGED <<doc, croisee_pages, nv_pages, pi, nvi, prev_sens, all_lines,
                   page_call, nv_call, csv>>
    /\ UNCHANGED <<amountVars, codesVars, mergeVars, geoVars, geminiVars, apVars, yearsVars, enrichVars, similarVars, investVars>>

\* One turn of the loop over nv_pages
ExtractNonVentPage ==
    /\ ext_pc = "non_ventilated"
    /\ nvi < Len(nv_pages)
    /\ \E page_text \in NonVentTextSamples :
       \E trace \in { nv_trace(page_text, NoSens, nv_pages[nvi + 1], Year, PdfName) } :
         \* page_lines = parse_non_ventilated_page(page_text, page_info, ...)
         /\ all_lines' = all_lines \o trace_rows(trace)
         /\ nv_call' = [ page_text |-> page_text, page_info |-> nv_pages[nvi + 1],
                         raised |-> FALSE, results |-> trace_rows(trace),
                         trace |-> trace ]
    /\ nvi' = nvi + 1
    /\ UNCHANGED <<doc, croisee_pages, nv_pages, pi, prev_sens, page_call, csv, ext_pc>>
    /\ UNCHANGED <<amountVars, codesVars, mergeVars, geoVars, geminiVars, apVars, yearsVars, enrichVars, similarVars, investVars>>

\* One turn of the loop over nv_pages where reading the page raises
ExtractNonVentPageRaises ==
    /\ ext_pc = "non_ventilated"
    /\ nvi < Len(nv_pages)
    /\ nv_call' = [ page_text |-> << >>, page_info |-> nv_pages[nvi + 1],
                    raised |-> TRUE, results |-> << >>, trace |-> << >> ]
    /\ nvi' = nvi + 1
    /\ UNCHANGED <<doc, croisee_pages, nv_pages, pi, prev_sens, all_lines,
                   page_call, csv, ext_pc>>
    /\ UNCHANGED <<amountVars, codesVars, mergeVars, geoVars, geminiVars, apVars, yearsVars, enrichVars, similarVars, investVars>>

\* The end of extract_year: save_csv(all_lines, year) unless dry_run or
\* there is no line.
FinishYear ==
    /\ ext_pc = "non_ventilated"
    /\ nvi = Len(nv_pages)
    /\ \E dry_run \in BOOLEAN :
         csv' = IF ~dry_run /\ all_lines # << >> THEN [rows |-> all_lines] ELSE None
    /\ ext_pc' = "done"
    /\ UNCHANGED <<doc, croisee_pages, nv_pages, pi, nvi, prev_sens, all_lines,
                   page_call, nv_call>>
    /\ UNCHANGED <<amountVars, codesVars, mergeVars, geoVars, geminiVars, apVars, yearsVars, enrichVars, similarVars, investVars>>

ExtractNext ==
    \/ ScanPages
    \/ ExtractPage
    \/ ExtractPageRaises
    \/ EndVentilated
    \/ ExtractNonVentPage
    \/ ExtractNonVentPageRaises
    \/ FinishYear

SpecExtract == ExtractInit /\ [][ExtractNext]_vars

(***************************************************************************)
(* merge_investments.py: the rule of addition and merge_year               *)
(*                                                                         *)
(* A project record is a record of its JSON fields. The arrondissement 0   *)
(* stands for None too: the code tests it for truth and writes             *)
(* "arrondissement or 0".                                                  *)
(***************************************************************************)

MIN_AMOUNT_BQ == 500000

LIEUX_ICONIQUES ==
    << "philharmonie", "theatre de la ville", "opera bastille", "opera garnier",
       "tour eiffel", "notre-dame", "notre dame", "hotel de ville",
       "palais de tokyo", "petit palais", "grand palais" >>

\* the places of str where word is read
Occurrences(str, word) ==
    {i \in 1..(Len(str) - Len(word) + 1) : Slice(str, i, i + Len(word) - 1) = word}

\* ".*" matches str[first..last]: no line break in it
DotStar(str, first, last) == \A k \in first..last : Ch(str, k) # "\n"

\* re.search(r'sub.*logement\s*soci', name_lower)
sub_logement_soci(name_lower) ==
    \E i \in Occurrences(name_lower, "sub") :
        \E j \in Occurrences(name_lower, "logement") :
            /\ j >= i + 3
            /\ DotStar(name_lower, i + 3, j - 1)
            /\ startswith(Slice(name_lower, j + 8 + SpaceRun(name_lower, j + 8),
                                Len(name_lower)), "soci")

\* re.search(r'subvention.*logement', name_lower)
subvention_logement(name_lower) ==
    \E i \in Occurrences(name_lower, "subvention") :
        \E j \in Occurrences(name_lower, "logement") :
            j >= i + 10 /\ DotStar(name_lower, i + 10, j - 1)

\* any(re.search(pattern, name_lower) for pattern in EXCLUSION_PATTERNS)
EXCLUSION_PATTERNS_search(name_lower) ==
    sub_logement_soci(name_lower) \/ subvention_logement(name_lower)

is_iconic_location(name) ==
    \E k \in 1..Len(LIEUX_ICONIQUES) : contains(lower(name), LIEUX_ICONIQUES[k])

is_excluded(name) ==
    IF is_iconic_location(name) THEN FALSE
    ELSE EXCLUSION_PATTERNS_search(lower(name))

\* The rule with the iconic test ahead of the amount test
should_add_iconic_first(name, arrondissement, montant) ==
    IF is_iconic_location(name) THEN [add |-> TRUE, reason |-> "LIEU_ICONIQUE"]
    ELSE IF montant < MIN_AMOUNT_BQ THEN [add |-> FALSE, reason |-> "MONTANT_TROP_FAIBLE"]
    ELSE IF is_excluded(name) THEN [add |-> FALSE, reason |-> "SUBVENTION_GENERIQUE"]
    ELSE IF arrondissement # 0 THEN [add |-> TRUE, reason |-> "AVEC_ARRONDISSEMENT"]
    ELSE [add |-> FALSE, reason |-> "CITYWIDE_GENERIQUE"]

\* should_add_from_bq(name, arrondissement, montant): (should_add, reason)
should_add_from_bq(name, arrondissement, montant) ==
    IF montant < MIN_AMOUNT_BQ THEN [add |-> FALSE, reason |-> "MONTANT_TROP_FAIBLE"]
    ELSE IF is_excluded(name) THEN [add |-> FALSE, reason |-> "SUBVENTION_GENERIQUE"]
    ELSE IF is_iconic_location(name) THEN [add |-> TRUE, reason |-> "LIEU_ICONIQUE"]
    ELSE IF arrondissement # 0 THEN [add |-> TRUE, reason |-> "AVEC_ARRONDISSEMENT"]
    ELSE [add |-> FALSE, reason |-> "CITYWIDE_GENERIQUE"]

AccentedLetters == "éèêëàâäùûüîïôöç"

PlainLetters == "eeeeaaauuuiiooc"

PlainChars == "abcdefghijklmnopqrstuvwxyz0123456789"

\* re.sub(r'[^a-z0-9\s]', ' ', name)
RECURSIVE blank_specials(_)
blank_specials(str) ==
    IF str = "" THEN ""
    ELSE IF Len(str) = 1
    THEN (IF contains(PlainChars, str) \/ IsSpace(str) THEN str ELSE " ")
    ELSE blank_specials(Slice(str, 1, Len(str) \div 2))
         \o blank_specials(Slice(str, Len(str) \div 2 + 1, Len(str)))

\* str.split(): the words of str from position i
RECURSIVE words_from(_, _)
words_from(str, i) ==
    IF i > Len(str) THEN << >>
    ELSE IF IsSpace(Ch(str, i)) THEN words_from(str, i + SpaceRun(str, i))
    ELSE <<Slice(str, i, i + NonSpaceRun(str, i) - 1)>>
         \o words_from(str, i + NonSpaceRun(str, i))

split(str) == words_from(str, 1)

\* " ".join(words)
RECURSIVE join_words(_)
join_words(words) ==
    IF words = << >> THEN ""
    ELSE IF Len(words) = 1 THEN words[1]
    ELSE words[1] \o " " \o join_words(Tail(words))

\* normalize_name(name): lower case, the accents and the cedilla taken off,
\* every other character but letters, digits and whitespace made a space,
\* the runs of whitespace made one space, stripped
normalize_name(name) ==
    join_words(split(blank_specials(MapStr(lower(name), AccentedLetters, PlainLetters))))

\* [w for w in words if len(w) > 3]
RECURSIVE long_words(_)
long_words(words) ==
    IF words = << >> THEN << >>
    ELSE (IF Len(words[1]) > 3 THEN <<words[1]>> ELSE << >>) \o long_words(Tail(words))

\* every word longer than three characters a keyword
bq_keywords_unbounded(bq_normalized) == long_words(split(bq_normalized))

\* bq_keywords = [w for w in bq_normalized.split() if len(w) > 3][:3]
bq_keywords(bq_normalized) == Slice(long_words(split(bq_normalized)), 1, 3)

all_keywords_in(pdf_normalized, keywords) ==
    \A k \in 1..Len(keywords) : contains(pdf_normalized, keywords[k])

\* the test on one keyword being enough
keywords_match_any(pdf_normalized, keywords) ==
    \E k \in 1..Len(keywords) : contains(pdf_normalized, keywords[k])

\* "if not bq_keywords: return False", then all(kw in pdf_normalized ...)
keywords_match(pdf_normalized, keywords) ==
    keywords # << >> /\ all_keywords_in(pdf_normalized, keywords)

is_similar_project(pdf_name, bq_name) ==
    keywords_match(normalize_name(pdf_name), bq_keywords(normalize_name(bq_name)))

\* The data directory: for the year, the file investissements_localises
\* (il_file) and the file investissements (bq_file), each None when it does
\* not exist, else the list under its key 'data'.

\* load_pdf_data that only reads the file investissements_localises
load_pdf_data_no_fallback(localises, investissements) ==
    IF localises # None THEN [source |-> "PDF", data |-> localises.data] ELSE None

\* load_pdf_data(year)
load_pdf_data(localises, investissements) ==
    IF localises # None THEN [source |-> "PDF", data |-> localises.data]
    ELSE IF investissements # None
    THEN [source |-> "BQ_ONLY", data |-> investissements.data]
    ELSE None

\* load_bq_data(year)
load_bq_data(investissements) ==
    IF investissements # None THEN [source |-> "BQ", data |-> investissements.data]
    ELSE None

\* the place of name among the entries, 0 when it has none
entry_of(entries, name) ==
    IF \E k \in 1..Len(entries) : entries[k].name = name
    THEN CHOOSE k \in 1..Len(entries) : entries[k].name = name
    ELSE 0

\* one line more in bq_aggregated: a new entry, or the amount added to the
\* entry of the name
aggregate_line(entries, p) ==
    IF entry_of(entries, p.apTexte) = 0
    THEN Append(entries, [ name |-> p.apTexte, montant |-> p.montant,
                           arrondissement |-> p.arrondissement,
                           thematique |-> p.thematique ])
    ELSE [entries EXCEPT ![entry_of(entries, p.apTexte)].montant = @ + p.montant]

\* The lines taken as they are, one entry each
RECURSIVE bq_lines_unaggregated(_)
bq_lines_unaggregated(bq_data) ==
    IF bq_data = << >> THEN << >>
    ELSE Append(bq_lines_unaggregated(Slice(bq_data, 1, Len(bq_data) - 1)),
                [ name |-> bq_data[Len(bq_data)].apTexte,
                  montant |-> bq_data[Len(bq_data)].montant,
                  arrondissement |-> bq_data[Len(bq_data)].arrondissement,
                  thematique |-> bq_data[Len(bq_data)].thematique ])

\* bq_aggregated, in the order its keys are inserted
RECURSIVE bq_aggregated(_)
bq_aggregated(bq_data) ==
    IF bq_data = << >> THEN << >>
    ELSE aggregate_line(bq_aggregated(Slice(bq_data, 1, Len(bq_data) - 1)),
                        bq_data[Len(bq_data)])

\* already_in_pdf
already_in_pdf(pdf_data, name) ==
    \E k \in 1..Len(pdf_data) : is_similar_project(pdf_data[k].nom_projet, name)

\* the record appended to added_from_bq for an entry to add
added_record(bq_info, reason) ==
    [ nom_projet |-> bq_info.name,
      montant |-> bq_info.montant,
      arrondissement |-> bq_info.arrondissement,
      source |-> "BigQuery",
      reason |-> reason,
      thematique |-> bq_info.thematique,
      type_ap |-> "grands_projets" ]

\* one turn of the loop over bq_aggregated: what it appends to added_from_bq
added_for(pdf_data, bq_info, decision) ==
    IF already_in_pdf(pdf_data, bq_info.name) THEN << >>
    ELSE IF decision.add THEN <<added_record(bq_info, decision.reason)>>
    ELSE << >>

RECURSIVE added_from_bq(_, _)
added_from_bq(pdf_data, entries) ==
    IF entries = << >> THEN << >>
    ELSE added_for(pdf_data, entries[1],
                   should_add_from_bq(entries[1].name, entries[1].arrondissement,
                                      entries[1].montant))
         \o added_from_bq(pdf_data, Tail(entries))

\* p left without the tag
tagged_pdf_as_is(p) == p

\* p with p['source'] = 'PDF'
tagged_pdf(p) ==
    [f \in DOMAIN p \cup {"source"} |-> IF f = "source" THEN "PDF" ELSE p[f]]

\* sum(p['montant'] for p in data)
RECURSIVE total_montant(_)
total_montant(data) ==
    IF data = << >> THEN 0 ELSE data[1].montant + total_montant(Tail(data))

\* The end of merge_year: the file written unless dry_run, and the returned
\* dict.
merge_done(pdf_data, merged_data, added, dry_run) ==
    [ output |-> IF dry_run THEN None
                 ELSE [ source |-> "Fusion PDF + BigQuery",
                        stats |-> [ pdf_projets |-> Len(pdf_data),
                                    bq_added |-> Len(added),
                                    total_projets |-> Len(merged_data),
                                    total_montant |-> total_montant(merged_data) ],
                        data |-> merged_data ],
      result |-> [ status |-> "OK",
                   pdf_projets |-> Len(pdf_data),
                   bq_added |-> Len(added),
                   total_projets |-> Len(merged_data),
                   total_montant |-> total_montant(merged_data),
                   added_projects |-> added ] ]

\* the branch that merges: the PDF projects tagged, then the added ones
merge_added(pdf_data, added, dry_run) ==
    merge_done(pdf_data, [k \in 1..Len(pdf_data) |-> tagged_pdf(pdf_data[k])] \o added,
               added, dry_run)

merge_loaded(pdf_result, bq_result, dry_run) ==
    IF pdf_result = None
    THEN [output |-> None, result |-> [status |-> "NO_PDF_DATA"]]
    ELSE IF bq_result = None \/ pdf_result.source = "BQ_ONLY"
    THEN merge_done(pdf_result.data, pdf_result.data, << >>, dry_run)
    ELSE merge_added(pdf_result.data,
                     added_from_bq(pdf_result.data, bq_aggregated(bq_result.data)),
                     dry_run)

\* merge_year(year, dry_run)
merge_year(localises, investissements, dry_run) ==
    merge_loaded(load_pdf_data(localises, investissements),
                 load_bq_data(investissements), dry_run)

\* Projects of the PDF: the school of the example, and a project whose name
\* holds the three words jaures, ecole and travaux
\* (the names held in the files are written without accents: TLC's state
\* queue keeps the characters of a string as bytes)
PdfEcole == [nom_projet |-> "Ecole Jean Jaures 15e", montant |-> 250000, arrondissement |-> 15]

PdfTravaux == [nom_projet |-> "Travaux ecole Jean Jaures", montant |-> 100000, arrondissement |-> 15]

PdfSamples == {PdfEcole, PdfTravaux}

\* Lines of BigQuery: the project of the example above and below the
\* threshold, an iconic place below the threshold and without
\* arrondissement, an iconic place whose name matches an exclusion pattern,
\* a generic subsidy, a project without arrondissement
BqJaures == [apTexte |-> "JAURES - Ecole - Travaux", montant |-> 600000, arrondissement |-> 15, thematique |-> "education"]

BqJauresSmall == [apTexte |-> "JAURES - Ecole - Travaux", montant |-> 300000, arrondissement |-> 15, thematique |-> "education"]

BqPhilharmonie == [apTexte |-> "Philharmonie de Paris", montant |-> 400000, arrondissement |-> 0, thematique |-> "culture"]

BqSubPhilharmonie == [apTexte |-> "SUB PHILHARMONIE LOGEMENT SOCIAL", montant |-> 700000, arrondissement |-> 19, thematique |-> "culture"]

BqSubLogement == [apTexte |-> "SUB EQUIPEMENT LOGEMENT SOCIAL", montant |-> 900000, arrondissement |-> 12, thematique |-> "logement"]

BqVoirie == [apTexte |-> "Voirie divers", montant |-> 800000, arrondissement |-> 0, thematique |-> "voirie"]

BqSamples ==
    {BqJaures, BqJauresSmall, BqPhilharmonie, BqSubPhilharmonie, BqSubLogement, BqVoirie}

MaxPdfProjects == 2

MaxBqLines == 2

\* a file that does not exist, or a file with a list under 'data'
FilesOf(samples, n) == {None} \cup {[data |-> d] : d \in SeqsUpTo(samples, n)}

MergeInit ==
    /\ InvestIdle
    /\ SimilarIdle
    /\ EnrichIdle
    /\ YearsIdle
    /\ GeminiIdle
    /\ ApIdle
    /\ AmountIdle
    /\ CodesIdle
    /\ ExtractIdle
    /\ GeoIdle
    /\ il_file \in FilesOf(PdfSamples, MaxPdfProjects)
    /\ bq_file \in FilesOf(BqSamples, MaxBqLines)
    /\ arg_dry_run \in BOOLEAN
    /\ merge_ret = None
    /\ out_file = None
    /\ merge_pc = "ready"

\* merge_year(year, dry_run) on the files of the year
MergeYear ==
    /\ merge_pc = "ready"
    /\ \E ret \in { merge_year(il_file, bq_file, arg_dry_run) } :
          /\ merge_ret' = ret.result
          /\ out_file' = ret.output
    /\ merge_pc' = "done"
    /\ UNCHANGED <<il_file, bq_file, arg_dry_run>>
    /\ UNCHANGED <<amountVars, codesVars, extractVars, geoVars, geminiVars, apVars, yearsVars, enrichVars, similarVars, investVars>>

MergeNext == MergeYear

SpecMerge == MergeInit /\ [][MergeNext]_vars

(***************************************************************************)
(* geocode_investments.py: what is read in the name of a project           *)
(*                                                                         *)
(* The regular expressions are applied with re.IGNORECASE: a match is      *)
(* looked for in the lowered text, and the groups are taken at the same    *)
(* places in the text itself.                                              *)
(***************************************************************************)

\* int(match.group(1)) of a group of d digits at position i
GroupInt(text, i, d) == DigitsValue(Slice(text, i, i + d - 1))

\* \b before position i, for a word character at i
WordStart(text, i) == i = 1 \/ ~IsWordChar(Ch(text, i - 1))

\* \b after position i, for a word character at i
WordEnd(text, i) == i >= Len(text) \/ ~IsWordChar(Ch(text, i + 1))

\* (?:e|ème|er|eme|E|EME) in a lowered text
ArrSuffixes == {"e", "ème", "er", "eme"}

\* the places after a suffix that starts at position i
AfterSuffix(low, i) ==
    {i + Len(s) : s \in {x \in ArrSuffixes : Slice(low, i, i + Len(x) - 1) = x}}

\* \((\d{1,2})(?:e|ème|er|eme|E|EME)\) matches at i with a group of d digits
ParenArrAt(low, i, d) ==
    /\ Ch(low, i) = "("
    /\ DigitRun(low, i + 1) >= d
    /\ \E e \in AfterSuffix(low, i + 1 + d) : Ch(low, e) = ")"

\* \b(\d{1,2})(?:e|ème|er|eme)\s*arr matches at i with a group of d digits
OrdinalArrAt(low, i, d) ==
    /\ IsDigit(Ch(low, i))
    /\ WordStart(low, i)
    /\ DigitRun(low, i) >= d
    /\ \E e \in AfterSuffix(low, i + d) :
          Slice(low, e + SpaceRun(low, e), e + SpaceRun(low, e) + 2) = "arr"

\* \b75(\d{3})\b matches at i
PostcodeAt(low, i) ==
    /\ Slice(low, i, i + 1) = "75"
    /\ WordStart(low, i)
    /\ DigitRun(low, i + 2) >= 3
    /\ WordEnd(low, i + 4)

\* the matches of the three ARROND_PATTERNS, as <<place, place of the group,
\* digits of the group>>
ArrMatches1(low) ==
    {m \in {<<i, i + 1, d>> : i \in {j \in 1..Len(low) : Ch(low, j) = "("}, d \in {1, 2}} :
        ParenArrAt(low, m[1], m[3])}

ArrMatches2(low) ==
    {m \in {<<i, i, d>> : i \in {j \in 1..Len(low) : IsDigit(Ch(low, j))}, d \in {1, 2}} :
        OrdinalArrAt(low, m[1], m[3])}

ArrMatches3(low) ==
    {<<i, i + 2, 3>> : i \in {j \in 1..Len(low) : PostcodeAt(low, j)}}

\* re.search: the leftmost match, and at one place the longer group first
FirstArrMatch(matches) ==
    CHOOSE m \in matches :
        \A n \in matches : m[1] < n[1] \/ (m[1] = n[1] /\ m[3] >= n[3])

\* the arrondissement a pattern gives: 0 without a match, the value of the
\* group else, its last two digits for the postal code
ArrOfMatches(text, matches, postcode) ==
    IF matches = {} THEN 0
    ELSE IF postcode
    THEN GroupInt(text, FirstArrMatch(matches)[2], FirstArrMatch(matches)[3]) % 100
    ELSE GroupInt(text, FirstArrMatch(matches)[2], FirstArrMatch(matches)[3])

\* the first of the values of the patterns that has a match and lies in
\* 1..20; 0 stands for the None returned when there is none
first_arrondissement(a1, a2, a3, matched1, matched2, matched3) ==
    IF matched1 /\ a1 \in 1..20 THEN a1
    ELSE IF matched2 /\ a2 \in 1..20 THEN a2
    ELSE IF matched3 /\ a3 \in 1..20 THEN a3
    ELSE 0

arrondissement_of(text, m1, m2, m3) ==
    first_arrondissement(ArrOfMatches(text, m1, FALSE), ArrOfMatches(text, m2, FALSE),
                         ArrOfMatches(text, m3, TRUE), m1 # {}, m2 # {}, m3 # {})

arrondissement_in(text, low) ==
    arrondissement_of(text, ArrMatches1(low), ArrMatches2(low), ArrMatches3(low))

\* extract_arrondissement(text)
extract_arrondissement(text) == arrondissement_in(text, lower(text))

\* [A-Za-zÀ-ÿ'\-\s]: the letters, the apostrophe, the hyphen and whitespace
IsNameChar(c) ==
    \/ IsSpace(c)
    \/ c \in {"'", "-"}
    \/ \E i \in 1..Len(LowerLetters) : c \in {Ch(LowerLetters, i), Ch(UpperLetters, i)}

\* the number of characters of the class from position i
RECURSIVE NameCharRun(_, _)
NameCharRun(text, i) ==
    IF i <= Len(text) /\ IsNameChar(Ch(text, i)) THEN 1 + NameCharRun(text, i + 1) ELSE 0

\* (?:\s*\(|\s*-|\s*,|$) matches at position i
NameEndAt(text, i) ==
    \/ i > Len(text)
    \/ i = Len(text) /\ Ch(text, i) = "\n"
    \/ Ch(text, i + SpaceRun(text, i)) \in {"(", "-", ","}

\* ([A-Za-zÀ-ÿ'\-\s]+?)(?:...) from position i: the lengths the group can
\* have
NameLengths(text, i) ==
    {n \in 1..NameCharRun(text, i) : NameEndAt(text, i + n)}

\* \s+ and the group after it, from position i: the numbers of whitespace
\* characters that leave a group to match
NameGaps(text, i) ==
    {w \in 1..SpaceRun(text, i) : NameLengths(text, i + w) # {}}

\* the group: \s+ takes as much as it can, the group as little as it can
NameGroup(text, first) ==
    Slice(text, first, first + Min(NameLengths(text, first)) - 1)

NameAfter(text, i) == NameGroup(text, i + Max(NameGaps(text, i)))

\* the words of an alternation that match at position i with \s+ and the
\* group after them, as places in the sequence words
WordsAt(low, i, words) ==
    {k \in 1..Len(words) :
        /\ Slice(low, i, i + Len(words[k]) - 1) = words[k]
        /\ NameGaps(low, i + Len(words[k])) # {}}

\* re.sub(r'\s+', ' ', group.strip()).strip()
clean_name(group) == join_words(split(group))

\* a match of (word)\s+(group): the word as the text has it, and the group
WordMatch(text, low, i, word) ==
    [ word |-> Slice(text, i, i + Len(word) - 1),
      name |-> clean_name(NameAfter(text, i + Len(word))) ]

WordMatchAt(text, low, i, words) ==
    WordMatch(text, low, i, words[Min(WordsAt(low, i, words))])

VoieWords ==
    << "rue", "avenue", "av", "bd", "boulevard", "place", "passage", "impasse",
       "quai", "allée", "square", "villa", "cité", "chemin" >>

VoieWordsSlash == << "rue", "avenue", "av", "bd", "boulevard", "place" >>

VoieWordsBare ==
    << "rue", "avenue", "av", "bd", "boulevard", "place", "passage", "quai" >>

\* (?:\s?(?:bis|ter))? then \s+ from position i: the places where the word
\* of the street can start, the one tried first first
AfterNumero(low, i) ==
    (IF IsSpace(Ch(low, i)) /\ Slice(low, i + 1, i + 3) \in {"bis", "ter"}
     THEN <<i + 4>> ELSE << >>)
    \o (IF Slice(low, i, i + 2) \in {"bis", "ter"} THEN <<i + 3>> ELSE << >>)
    \o <<i>>

\* the ends of group 1 of ADDRESS_PATTERNS[0] at position i that let the
\* rest match, in the order they are tried
NumeroEnds(low, i, ends) ==
    {k \in 1..Len(ends) :
        /\ SpaceRun(low, ends[k]) >= 1
        /\ WordsAt(low, ends[k] + SpaceRun(low, ends[k]), VoieWords) # {}}

NumeroAt(low, i) ==
    /\ DigitRun(low, i) \in 1..4
    /\ NumeroEnds(low, i, AfterNumero(low, i + DigitRun(low, i))) # {}

\* the match of ADDRESS_PATTERNS[0] that starts at i
NumeroMatchEnd(low, i, ends) == ends[Min(NumeroEnds(low, i, ends))]

NumeroMatchFrom(text, low, i, end) ==
    [ numero |-> Slice(text, i, end - 1),
      voie |-> WordMatchAt(text, low, end + SpaceRun(low, end), VoieWords) ]

NumeroMatch(text, low, i) ==
    NumeroMatchFrom(text, low, i,
                    NumeroMatchEnd(low, i, AfterNumero(low, i + DigitRun(low, i))))

\* (\d{1,4}/\d{1,4}) at position i: the place after it, 0 without a match
SlashEnd(low, i) ==
    IF /\ DigitRun(low, i) \in 1..4
       /\ Ch(low, i + DigitRun(low, i)) = "/"
       /\ DigitRun(low, i + DigitRun(low, i) + 1) \in 1..4
    THEN i + DigitRun(low, i) + 1 + DigitRun(low, i + DigitRun(low, i) + 1)
    ELSE 0

SlashAt(low, i) ==
    /\ SlashEnd(low, i) > 0
    /\ SpaceRun(low, SlashEnd(low, i)) >= 1
    /\ WordsAt(low, SlashEnd(low, i) + SpaceRun(low, SlashEnd(low, i)), VoieWordsSlash) # {}

SlashMatch(text, low, i) ==
    [ numero |-> Slice(text, i, SlashEnd(low, i) - 1),
      voie |-> WordMatchAt(text, low,
                           SlashEnd(low, i) + SpaceRun(low, SlashEnd(low, i)),
                           VoieWordsSlash) ]

\* the first match of a pattern: the leftmost place where it matches
FirstPlace(places) == IF places = {} THEN 0 ELSE Min(places)

\* f"{numero} {type_voie} {nom_voie}" when len(nom_voie) > 2
numero_address(m) ==
    IF Len(m.voie.name) > 2
    THEN <<m.numero \o " " \o m.voie.word \o " " \o m.voie.name, "numero">>
    ELSE <<"", "">>
\* (d[eu]\s+|du\s+|de\s+la\s+|des\s+) at position i: the length of its
\* word, 0 when it does not match
PrepLen(low, i) ==
    IF Slice(low, i, i + 1) \in {"de", "du"} /\ IsSpace(Ch(low, i + 2)) THEN 2
    ELSE IF Slice(low, i, i + 2) = "des" /\ IsSpace(Ch(low, i + 3)) THEN 3
    ELSE 0

\* the optional group is taken at position i: it matches and the group of
\* the name matches after it
PrepAt(low, i) == PrepLen(low, i) > 0 /\ NameGaps(low, i + PrepLen(low, i)) # {}

\* the words of ADDRESS_PATTERNS[2] that match at position i with the rest
BareWordsAt(low, i) ==
    {k \in 1..Len(VoieWordsBare) :
        /\ Slice(low, i, i + Len(VoieWordsBare[k]) - 1) = VoieWordsBare[k]
        /\ SpaceRun(low, i + Len(VoieWordsBare[k])) >= 1
        /\ \/ PrepAt(low, i + Len(VoieWordsBare[k])
                          + SpaceRun(low, i + Len(VoieWordsBare[k])))
           \/ NameGaps(low, i + Len(VoieWordsBare[k])) # {}}

BareAt(low, i) == WordStart(low, i) /\ BareWordsAt(low, i) # {}

\* the groups 2 and 3 from the place p after the word and its whitespace,
\* with the optional group taken: prep keeps the whitespace of the text
BareWithPrep(text, low, p) ==
    [ prep |-> Slice(text, p, p + PrepLen(low, p)
                                 + Max(NameGaps(low, p + PrepLen(low, p))) - 1),
      name |-> clean_name(NameAfter(text, p + PrepLen(low, p))) ]

\* the groups from the place after the word, found at e
BareGroups(text, low, e) ==
    IF PrepAt(low, e + SpaceRun(low, e))
    THEN BareWithPrep(text, low, e + SpaceRun(low, e))
    ELSE [prep |-> "", name |-> clean_name(NameAfter(text, e))]

BareMatchOf(text, low, i, word) ==
    [ word |-> Slice(text, i, i + Len(word) - 1),
      groups |-> BareGroups(text, low, i + Len(word)) ]

BareMatch(text, low, i) ==
    BareMatchOf(text, low, i, VoieWordsBare[Min(BareWordsAt(low, i))])

\* f"{type_voie} {prep}{nom_voie}" when len(nom_voie) > 2
bare_address(m) ==
    IF Len(m.groups.name) > 2
    THEN <<m.word \o " " \o m.groups.prep \o m.groups.name, "rue">>
    ELSE <<"", "">>

\* the places where the three ADDRESS_PATTERNS match first, 0 without match
address_places(low) ==
    << FirstPlace({i \in 1..Len(low) : IsDigit(Ch(low, i)) /\ NumeroAt(low, i)}),
       FirstPlace({i \in 1..Len(low) : IsDigit(Ch(low, i)) /\ SlashAt(low, i)}),
       FirstPlace({i \in 1..Len(low) : BareAt(low, i)}) >>

\* the return of a pattern with a number, when it has a match
address_1(text, low, at) ==
    IF at[1] > 0 THEN numero_address(NumeroMatch(text, low, at[1])) ELSE <<"", "">>

address_2(text, low, at) ==
    IF at[2] > 0 THEN numero_address(SlashMatch(text, low, at[2])) ELSE <<"", "">>

address_3(text, low, at) ==
    IF at[3] > 0 THEN bare_address(BareMatch(text, low, at[3])) ELSE <<"", "">>

\* the first of the three patterns that has a match with a name of more
\* than 2 characters gives the address
first_address(r1, r2, r3) ==
    IF r1[1] # "" THEN r1 ELSE IF r2[1] # "" THEN r2 ELSE r3

address_at(text, low, at) ==
    first_address(address_1(text, low, at), address_2(text, low, at),
                  address_3(text, low, at))

address_in(text, low) == address_at(text, low, address_places(low))

\* extract_address(text): (adresse, type); ("", "") stands for the (None,
\* None) returned without address, which the callers test for truth
extract_address(text) == address_in(text, lower(text))

PlaceWords ==
    << "piscine", "gymnase", "stade", "école", "college", "lycée", "crèche",
       "mairie", "bibliothèque", "médiathèque" >>

PlaceWordsLong == << "centre sportif", "centre d'animation", "maison de la culture" >>

\* f"{type_lieu} {nom_lieu}" when len(nom_lieu) > 2
place_name(m) ==
    IF Len(m.name) > 2 THEN m.word \o " " \o m.name ELSE ""

place_of(text, low, at, words) ==
    IF at > 0 THEN place_name(WordMatchAt(text, low, at, words)) ELSE ""

place_in_words(text, low, words) ==
    place_of(text, low,
             FirstPlace({i \in 1..Len(low) : WordsAt(low, i, words) # {}}), words)

first_place(p1, p2) == IF p1 # "" THEN p1 ELSE p2

place_in(text, low) ==
    first_place(place_in_words(text, low, PlaceWords),
                place_in_words(text, low, PlaceWordsLong))

\* extract_place_name(text); "" stands for the None returned without place
extract_place_name(text) == place_in(text, lower(text))

(***************************************************************************)
(* geocode_investments.py: the registry, the API BAN and its cache         *)
(*                                                                         *)
(* A dict is a function on its keys. Coordinates are counted in millionths *)
(* of a degree, the coordinates the API returns in ten-millionths; scores  *)
(* and confidences are counted in hundredths. An arrondissement 0 stands   *)
(* for None too, and a latitude 0 of the registry for None: the code tests *)
(* both for truth.                                                         *)
(***************************************************************************)

\* d.get(key, default)
Get(d, key, default) == IF key \in DOMAIN d THEN d[key] ELSE default

\* d[key] = value
Put(d, key, value) ==
    [k \in DOMAIN d \cup {key} |-> IF k = key THEN value ELSE d[k]]

\* the empty dict
EmptyDict == [k \in {} |-> 0]

CENTROIDS ==
    << <<48860500, 2347800>>, <<48867300, 2341400>>, <<48863100, 2360600>>,
       <<48853600, 2357800>>, <<48845000, 2349700>>, <<48849200, 2333700>>,
       <<48858300, 2312100>>, <<48874400, 2311700>>, <<48876300, 2338000>>,
       <<48876000, 2361600>>, <<48859600, 2379400>>, <<48839100, 2389600>>,
       <<48831100, 2359200>>, <<48833900, 2326500>>, <<48841800, 2298800>>,
       <<48860000, 2269000>>, <<48886700, 2310200>>, <<48892200, 2344700>>,
       <<48884000, 2382000>>, <<48863900, 2398500>> >>

\* str(n) for n >= 0
RECURSIVE IntStr(_)
IntStr(n) ==
    IF n < 10 THEN Ch("0123456789", n + 1)
    ELSE IntStr(n \div 10) \o Ch("0123456789", (n % 10) + 1)

\* f"{n:02d}"
IntStr02(n) == IF n < 10 THEN "0" \o IntStr(n) ELSE IntStr(n)

\* round(x, 6) of a coordinate in ten-millionths, in millionths (the
\* coordinates of the modelled responses are no ties)
round6(x) == (x + 5) \div 10

\* match_lieu_connu(text, lieux): the first entry of the registry whose
\* pattern is in the upper-cased text and that has a latitude, None else
lieu_places(text_upper, lieux) ==
    {k \in 1..Len(lieux) : contains(text_upper, lieux[k].pattern) /\ lieux[k].lat # 0}

lieu_at(lieux, places) == IF places = {} THEN None ELSE lieux[Min(places)]

match_lieu_connu(text, lieux) == lieu_at(lieux, lieu_places(upper(text), lieux))

\* cache_key = f"{query}|{arrondissement or 0}"
cache_key(query, arrondissement) == query \o "|" \o IntStr(arrondissement)

\* the query sent: the text, the postal code when an arrondissement is
\* known, Paris
full_query(query, arrondissement) ==
    IF arrondissement > 0
    THEN strip(query) \o ", "
         \o (IF arrondissement > 4 THEN "750" \o IntStr02(arrondissement) ELSE "75001")
         \o " Paris"
    ELSE strip(query) \o ", Paris"

\* A response of requests.get is [raises |-> TRUE] when the call or
\* raise_for_status raises, and else [raises |-> FALSE, features |-> ...]
\* with the features of the JSON body: each a record of its coordinates
\* <<lon, lat>> and its properties, a dict.
\* the place of a response that no request asks for
NoResponse == [raises |-> TRUE, unused |-> TRUE]

\* the feature of a response that is taken: features[0] when there is one
\* and its postcode starts with 75
paris_feature(response) ==
    /\ response.features # << >>
    /\ startswith(Get(response.features[1].properties, "postcode", ""), "75")

\* the result built from features[0]
api_result(feature) ==
    [ lat |-> round6(feature.coordinates[2]),
      lon |-> round6(feature.coordinates[1]),
      score |-> Get(feature.properties, "score", 0),
      label |-> Get(feature.properties, "label", "") ]

\* the requests sent for a query: with type=housenumber, then without
housenumber_request(q) == [q |-> q, limit |-> 1, type |-> "housenumber"]

plain_request(q) == [q |-> q, limit |-> 1]

\* the lookup past the cache where an exception is remembered as not found
api_lookup_caches_errors(key, q, geo_cache, r1, r2) ==
    IF r1.raises
    THEN [ result |-> None, geo_cache |-> Put(geo_cache, key, None), used |-> 1,
           requests |-> <<housenumber_request(q)>> ]
    ELSE IF paris_feature(r1)
    THEN [ result |-> api_result(r1.features[1]),
           geo_cache |-> Put(geo_cache, key, api_result(r1.features[1])), used |-> 1,
           requests |-> <<housenumber_request(q)>> ]
    ELSE [ result |-> None, geo_cache |-> Put(geo_cache, key, None), used |-> 2,
           requests |-> <<housenumber_request(q), plain_request(q)>> ]

\* geocode_api past the cache, with the responses r1 and r2 of the API to
\* the first and the second request
api_lookup(key, q, geo_cache, r1, r2) ==
    IF r1.raises
    THEN [ result |-> None, geo_cache |-> geo_cache, used |-> 1,
           requests |-> <<housenumber_request(q)>> ]
    ELSE IF paris_feature(r1)
    THEN [ result |-> api_result(r1.features[1]),
           geo_cache |-> Put(geo_cache, key, api_result(r1.features[1])), used |-> 1,
           requests |-> <<housenumber_request(q)>> ]
    ELSE IF r2.raises
    THEN [ result |-> None, geo_cache |-> geo_cache, used |-> 2,
           requests |-> <<housenumber_request(q), plain_request(q)>> ]
    ELSE IF paris_feature(r2)
    THEN [ result |-> api_result(r2.features[1]),
           geo_cache |-> Put(geo_cache, key, api_result(r2.features[1])), used |-> 2,
           requests |-> <<housenumber_request(q), plain_request(q)>> ]
    ELSE [ result |-> None, geo_cache |-> Put(geo_cache, key, None), used |-> 2,
           requests |-> <<housenumber_request(q), plain_request(q)>> ]

\* geocode_api with its cache key
api_never_cached(key, q, geo_cache, r1, r2) == api_lookup(key, q, geo_cache, r1, r2)

api_cached(key, q, geo_cache, r1, r2) ==
    IF key \in DOMAIN geo_cache
    THEN [result |-> geo_cache[key], geo_cache |-> geo_cache, used |-> 0, requests |-> << >>]
    ELSE api_lookup(key, q, geo_cache, r1, r2)

\* geocode_api(query, arrondissement, geo_cache), the API answering r1 and
\* r2: the result, the cache after it, the requests sent and their number
geocode_api(query, arrondissement, geo_cache, r1, r2) ==
    api_cached(cache_key(query, arrondissement), full_query(query, arrondissement),
               geo_cache, r1, r2)

(***************************************************************************)
(* geocode_investments.py: geocode_project                                 *)
(*                                                                         *)
(* The operators below return the project after the call, the value        *)
(* returned, the cache after the call, the requests sent to the API, the   *)
(* number of responses read and the tiers tried, in the order of the code. *)
(***************************************************************************)

\* d.update(e)
Update(d, e) ==
    [k \in DOMAIN d \cup DOMAIN e |-> IF k \in DOMAIN e THEN e[k] ELSE d[k]]

\* arr = arr_existant if arr_existant and arr_existant > 0
\*       else extract_arrondissement(nom)
project_arrondissement(project, nom) ==
    IF Get(project, "arrondissement", 0) > 0
    THEN Get(project, "arrondissement", 0)
    ELSE extract_arrondissement(nom)

\* 5. no geolocation: the source and the score are set, nothing else
tier_none(project, geo_cache, requests, used, tried) ==
    [ project |-> Update(project, [geo_source |-> "none", geo_score |-> 0]),
      ret |-> "none", geo_cache |-> geo_cache, requests |-> requests, used |-> used,
      tried |-> tried \o <<"none">> ]

\* 4. the centroid of the arrondissement
tier_centroid_skipped(project, arr, geo_cache, requests, used, tried) ==
    tier_none(project, geo_cache, requests, used, tried \o <<"centroid">>)

tier_centroid(project, arr, geo_cache, requests, used, tried) ==
    IF arr # 0 /\ arr \in DOMAIN CENTROIDS
    THEN [ project |-> Update(project, [ lat |-> CENTROIDS[arr][1],
                                         lon |-> CENTROIDS[arr][2],
                                         geo_source |-> "centroid",
                                         geo_score |-> 10,
                                         geo_label |-> "Arrondissement " \o IntStr(arr) ]),
           ret |-> "centroid", geo_cache |-> geo_cache, requests |-> requests,
           used |-> used, tried |-> tried \o <<"centroid">> ]
    ELSE tier_none(project, geo_cache, requests, used, tried \o <<"centroid">>)

\* the fields of a result of the API taken for the project
api_fields(result, source) ==
    [ lat |-> result.lat, lon |-> result.lon, geo_source |-> source,
      geo_score |-> result.score, geo_label |-> result.label ]

\* the place name tier accepts a result whose score is above 0.3
place_accepted_any_score(result) == result # None

place_accepted(result) == result # None /\ Get(result, "score", 0) > 30

\* 3. the place name, once geocode_api has answered
tier_place_done(project, arr, api, requests, used, tried) ==
    IF place_accepted(api.result)
    THEN [ project |-> Update(project, api_fields(api.result, "api_lieu")),
           ret |-> "api_lieu", geo_cache |-> api.geo_cache,
           requests |-> requests \o api.requests, used |-> used + api.used,
           tried |-> tried ]
    ELSE tier_centroid(project, arr, api.geo_cache, requests \o api.requests,
                       used + api.used, tried)

\* 3. the place name
tier_place(project, arr, place, geo_cache, requests, used, tried, responses) ==
    IF place # ""
    THEN tier_place_done(project, arr,
                         geocode_api(place, arr, geo_cache,
                                     responses[used + 1], responses[used + 2]),
                         requests, used, tried \o <<"api_lieu">>)
    ELSE tier_centroid(project, arr, geo_cache, requests, used, tried)

\* the address tier accepts a result whose score is above 0.4
address_accepted_at_threshold(result) == result # None /\ Get(result, "score", 0) >= 40

address_accepted(result) == result # None /\ Get(result, "score", 0) > 40

\* 2. the address, once geocode_api has answered
tier_address_done(project, arr, addr_type, place, api, responses) ==
    IF address_accepted(api.result)
    THEN [ project |-> Update(project, api_fields(api.result, "api_" \o addr_type)),
           ret |-> "api_" \o addr_type, geo_cache |-> api.geo_cache,
           requests |-> api.requests, used |-> api.used,
           tried |-> <<"lieu_connu", "api_adresse">> ]
    ELSE tier_place(project, arr, place, api.geo_cache, api.requests,
                    api.used, <<"lieu_connu", "api_adresse">>, responses)

\* 2. the address
tier_address(project, arr, address, place, geo_cache, responses) ==
    IF address[1] # ""
    THEN tier_address_done(project, arr, address[2], place,
                           geocode_api(address[1], arr, geo_cache,
                                       responses[1], responses[2]),
                           responses)
    ELSE tier_place(project, arr, place, geo_cache, << >>, 0,
                    <<"lieu_connu">>, responses)

\* the arrondissement of the registry is taken when the project has none
lieu_arrondissement(project, lieu_match) ==
    IF Get(project, "arrondissement", 0) = 0 /\ lieu_match.arrondissement # 0
    THEN Put(project, "arrondissement", lieu_match.arrondissement)
    ELSE project

\* the registry is the first tier
lieu_known_never(lieu_match) == FALSE

lieu_known(lieu_match) == lieu_match # None

\* 1. the registry of known places
tier_lieu_connu(project, arr, lieu_match, address, place, geo_cache, responses) ==
    IF lieu_known(lieu_match)
    THEN [ project |-> lieu_arrondissement(
                           Update(project, [ lat |-> lieu_match.lat,
                                             lon |-> lieu_match.lon,
                                             geo_source |-> "lieu_connu",
                                             geo_score |-> 100,
                                             geo_label |-> lieu_match.adresse ]),
                           lieu_match),
           ret |-> "lieu_connu", geo_cache |-> geo_cache, requests |-> << >>,
           used |-> 0, tried |-> <<"lieu_connu">> ]
    ELSE tier_address(project, arr, address, place, geo_cache, responses)

\* the tiers in their order, the arrondissement found written to the project
\* (lieu_match, address and place are what match_lieu_connu, extract_address
\* and extract_place_name return for the name of the project)
geocode_extracted(project, arr, lieu_match, address, place, geo_cache, responses) ==
    tier_lieu_connu(IF arr # 0 THEN Put(project, "arrondissement", arr) ELSE project,
                    arr, lieu_match, address, place, geo_cache, responses)

geocode_named(project, nom, lieux, geo_cache, responses) ==
    geocode_extracted(project, project_arrondissement(project, nom),
                      match_lieu_connu(nom, lieux), extract_address(nom),
                      extract_place_name(nom), geo_cache, responses)

\* geocode_project(project, lieux, geo_cache), the API answering with the
\* responses in their order
geocode_project(project, lieux, geo_cache, responses) ==
    geocode_named(project, Get(project, "nom_projet", ""), lieux, geo_cache, responses)

(***************************************************************************)
(* llm_extract_addresses.py: the LLM step on one candidate                 *)
(*                                                                         *)
(* A response of the model is [raises |-> TRUE] when generate_content or   *)
(* json.loads raises, and else [raises |-> FALSE, json |-> ...] with the   *)
(* object json.loads returns; an adresse "" stands for null too: the code  *)
(* tests it for truth.                                                     *)
(***************************************************************************)

MIN_CONFIDENCE == 85

\* extract_address_llm(model, project_name, arrondissement), the model
\* answering with response
confident_any(json) == Get(json, "adresse", "") # ""

confident(json) ==
    Get(json, "adresse", "") # "" /\ Get(json, "confidence", 0) >= MIN_CONFIDENCE

extract_address_llm(response) ==
    IF response.raises THEN None
    ELSE IF confident(response.json)
    THEN [adresse |-> response.json.adresse, confidence |-> response.json.confidence]
    ELSE None

\* the result validate_address_ban takes from a response of the API
ban_valid_any_score(response) == paris_feature(response)

ban_valid(response) ==
    /\ paris_feature(response)
    /\ Get(response.features[1].properties, "score", 0) > 40

\* validate_address_ban(adresse, arrondissement), the API answering with
\* response to its one request
validate_address_ban(adresse, arrondissement, response) ==
    IF response.raises THEN None
    ELSE IF ban_valid(response) THEN api_result(response.features[1])
    ELSE None

\* the fields process_year writes for a validated address
llm_fields(extraction, validation) ==
    [ lat |-> validation.lat, lon |-> validation.lon, geo_source |-> "llm_ban",
      geo_score |-> Min({extraction.confidence, validation.score}),
      geo_label |-> validation.label,
      llm_extracted_address |-> extraction.adresse ]

\* one turn of the loop of process_year, past the extraction and the
\* validation: the project after it and the statistic counted
llm_validated(project, dry_run, extraction, validation) ==
    IF validation = None
    THEN [project |-> project, counted |-> "ban_failed",
          extraction |-> extraction, validation |-> None]
    ELSE [project |-> IF dry_run THEN project
                      ELSE Update(project, llm_fields(extraction, validation)),
          counted |-> "ban_validated",
          extraction |-> extraction, validation |-> validation]

llm_extracted(project, dry_run, extraction, ban_response) ==
    IF extraction = None
    THEN [project |-> project, counted |-> "llm_low_confidence",
          extraction |-> None, validation |-> None]
    ELSE llm_validated(project, dry_run, extraction,
                       validate_address_ban(extraction.adresse,
                                            Get(project, "arrondissement", 0),
                                            ban_response))

\* one turn of the loop of process_year on a candidate
llm_candidate(project, dry_run, llm_response, ban_response) ==
    llm_extracted(project, dry_run, extract_address_llm(llm_response), ban_response)

\* the candidates of process_year: the places, in the list, of the projects
\* whose source is centroid or none
is_candidate_any(project) == TRUE

is_candidate(project) == Get(project, "geo_source", "") \in {"centroid", "none"}

RECURSIVE candidates_of(_, _)
candidates_of(projects_, k) ==
    IF k > Len(projects_) THEN << >>
    ELSE (IF is_candidate(projects_[k]) THEN <<k>> ELSE << >>)
         \o candidates_of(projects_, k + 1)

\* the count of the projects by source, as both scripts write it to the
\* statistics of the file
geo_breakdown(projects_, sources) ==
    [s \in sources |->
        Cardinality({k \in 1..Len(projects_) : Get(projects_[k], "geo_source", "none") = s})]

GEO_SOURCES == {"lieu_connu", "api_numero", "api_rue", "api_lieu", "centroid", "none"}

(***************************************************************************)
(* The geocoding of the file of one year: geocode_investments.py main and  *)
(* geocode_year, then llm_extract_addresses.py process_year, run again and *)
(* again on investissements_complet_{year}.json                            *)
(***************************************************************************)

\* The registry of known places: a gymnasium, and an entry without
\* coordinates
LieuJapy ==
    [ pattern |-> "GYMNASE JAPY", lat |-> 48855400, lon |-> 2380200,
      adresse |-> "2 rue Japy, 75011 Paris", arrondissement |-> 11 ]

LieuPhilharmonie ==
    [pattern |-> "STADE", lat |-> 0, lon |-> 0, adresse |-> "", arrondissement |-> 0]

LieuxSamples == { << >>, <<LieuPhilharmonie, LieuJapy>> }

\* Projects of the merged file: a known place with an address, an address
\* with an arrondissement, a place name, a name without any place, a
\* project whose arrondissement comes with the file, and one whose
\* arrondissement is no arrondissement of Paris
GeoJapy == [nom_projet |-> "Gymnase Japy 12 rue Curial", arrondissement |-> 0]

GeoCurial == [nom_projet |-> "Ecole 12 rue Curial (19e)", arrondissement |-> 0]

GeoCharlety == [nom_projet |-> "Stade Charlety", arrondissement |-> 0]

GeoClimat == [nom_projet |-> "Plan climat", arrondissement |-> 0]

GeoDivers == [nom_projet |-> "Travaux divers", arrondissement |-> 12]

GeoHorsParis == [nom_projet |-> "Budget participatif", arrondissement |-> 25]

GeoSamples == {GeoJapy, GeoCurial, GeoCharlety, GeoClimat, GeoDivers, GeoHorsParis}

\* Responses of the API BAN: an error, no feature, and a first feature in
\* Paris with a score of 0.9, 0.4, 0.35 and 0.3, or in Aubervilliers
ApiRaises == [raises |-> TRUE]

ApiFeature(postcode, score, label) ==
    [ raises |-> FALSE,
      features |-> << [ coordinates |-> <<23822517, 488937264>>,
                        properties |-> [postcode |-> postcode, score |-> score,
                                        label |-> label] ] >> ]

ApiResponses ==
    { ApiRaises,
      [raises |-> FALSE, features |-> << >>],
      ApiFeature("75019", 90, "12 Rue Curial 75019 Paris"),
      ApiFeature("75019", 40, "Rue Curial 75019 Paris"),
      ApiFeature("75013", 35, "Stade Charlety 75013 Paris"),
      ApiFeature("75001", 30, "Paris"),
      ApiFeature("93300", 90, "12 Rue Curial 93300 Aubervilliers") }

\* Responses of the model: an error, an address with a confidence of 0.95,
\* 0.85 and 0.84, and no address
LlmResponses ==
    { [raises |-> TRUE],
      [raises |-> FALSE, json |-> [adresse |-> "6 rue Littre", confidence |-> 95]],
      [raises |-> FALSE, json |-> [adresse |-> "6 rue Littre", confidence |-> 85]],
      [raises |-> FALSE, json |-> [adresse |-> "6 rue Littre", confidence |-> 84]],
      [raises |-> FALSE, json |-> [adresse |-> "", confidence |-> 0]] }

MaxProjects == 1

MaxRuns == 3

MaxResponses == 4

\* the responses the API gives to the n requests of one call, the places
\* past them left unused
ResponsesOf(n) ==
    {[k \in 1..MaxResponses |-> IF k <= n THEN rs[k] ELSE NoResponse] :
        rs \in [1..n -> ApiResponses]}

NoCall == [op |-> "none"]

GeoInit ==
    /\ InvestIdle
    /\ SimilarIdle
    /\ EnrichIdle
    /\ YearsIdle
    /\ GeminiIdle
    /\ ApIdle
    /\ AmountIdle
    /\ CodesIdle
    /\ ExtractIdle
    /\ MergeIdle
    /\ complet_file \in {None} \cup
           {[data |-> d, stats |-> [total_projets |-> Len(d)]] :
               d \in SeqsUpTo(GeoSamples, MaxProjects)}
    /\ lieux_connus \in LieuxSamples
    /\ geo_cache_file = None
    /\ geo_cache_run = EmptyDict
    /\ projects = << >>
    /\ candidates = << >>
    /\ geo_i = 0
    /\ geo_stats = EmptyDict
    /\ llm_dry_run = FALSE
    /\ geo_call = NoCall
    /\ geo_ret = None
    /\ geo_runs = 0
    /\ geo_pc = "idle"

\* load_geo_cache()
load_geo_cache(file) == IF file = None THEN EmptyDict ELSE file

\* main of geocode_investments.py with --year, up to the loop of
\* geocode_year: the registry and the cache are loaded, then the file; a
\* missing file ends geocode_year, main saves the cache and ends
GeocodeMain ==
    /\ geo_pc = "idle"
    /\ geo_runs < MaxRuns
    /\ geo_runs' = geo_runs + 1
    /\ geo_call' = NoCall
    /\ candidates' = << >>
    /\ llm_dry_run' = FALSE
    /\ IF complet_file = None
       THEN /\ geo_ret' = [status |-> "NOT_FOUND"]
            /\ geo_cache_file' = load_geo_cache(geo_cache_file)
            /\ UNCHANGED <<geo_cache_run, projects, geo_i, geo_stats, geo_pc>>
       ELSE /\ geo_cache_run' = load_geo_cache(geo_cache_file)
            /\ projects' = complet_file.data
            /\ geo_i' = 1
            /\ geo_stats' = Put([s \in GEO_SOURCES |-> 0], "total", Len(complet_file.data))
            /\ geo_ret' = None
            /\ geo_pc' = "geocode_year"
            /\ UNCHANGED geo_cache_file
    /\ UNCHANGED <<complet_file, lieux_connus>>
    /\ UNCHANGED <<amountVars, codesVars, extractVars, mergeVars, geminiVars, apVars, yearsVars, enrichVars, similarVars, investVars>>

\* one turn of the loop of geocode_year: geocode_project on the next
\* project, the API answering each request it sends with any response
GeocodeProject ==
    /\ geo_pc = "geocode_year"
    /\ geo_i <= Len(projects)
    /\ \E nom \in {Get(projects[geo_i], "nom_projet", "")} :
       \E arr \in {project_arrondissement(projects[geo_i], nom)} :
       \E lieu_match \in {match_lieu_connu(nom, lieux_connus)} :
       \E address \in {extract_address(nom)} :
       \E place \in {extract_place_name(nom)} :
       \E n \in 0..MaxResponses :
       \E responses \in ResponsesOf(n) :
       \E g \in {geocode_extracted(projects[geo_i], arr, lieu_match, address, place,
                                   geo_cache_run, responses)} :
          /\ g.used = n
          /\ projects' = [projects EXCEPT ![geo_i] = g.project]
          /\ geo_cache_run' = g.geo_cache
          /\ geo_stats' = Put(geo_stats, g.ret, Get(geo_stats, g.ret, 0) + 1)
          /\ geo_call' = [ op |-> "geocode_project", index |-> geo_i,
                           before |-> projects[geo_i], after |-> g.project,
                           ret |-> g.ret, requests |-> g.requests, tried |-> g.tried,
                           cache_before |-> geo_cache_run, lieu_match |-> lieu_match,
                           address |-> address[1], place |-> place ]
    /\ geo_i' = geo_i + 1
    /\ UNCHANGED <<complet_file, lieux_connus, geo_cache_file, candidates, llm_dry_run,
                   geo_ret, geo_runs, geo_pc>>
    /\ UNCHANGED <<amountVars, codesVars, extractVars, mergeVars, geminiVars, apVars, yearsVars, enrichVars, similarVars, investVars>>

\* the end of geocode_year and of main: the summary divides by the number
\* of projects and raises when there is none; else the file is written with
\* the projects and their count by source, and main saves the cache
GeocodeSave ==
    /\ geo_pc = "geocode_year"
    /\ geo_i > Len(projects)
    /\ IF Len(projects) = 0
       THEN /\ geo_ret' = [raised |-> "ZeroDivisionError"]
            /\ UNCHANGED <<complet_file, geo_cache_file>>
       ELSE /\ complet_file' =
                  [ data |-> projects,
                    stats |-> Put(complet_file.stats, "geo_breakdown",
                                  [s \in GEO_SOURCES |-> geo_stats[s]]) ]
            /\ geo_cache_file' = geo_cache_run
            /\ geo_ret' = Put(geo_stats, "status", "OK")
    /\ geo_pc' = "idle"
    /\ UNCHANGED <<lieux_connus, geo_cache_run, projects, candidates, geo_i, geo_stats,
                   llm_dry_run, geo_call, geo_runs>>
    /\ UNCHANGED <<amountVars, codesVars, extractVars, mergeVars, geminiVars, apVars, yearsVars, enrichVars, similarVars, investVars>>

LlmStats ==
    [ total_candidates |-> 0, llm_extracted |-> 0, llm_low_confidence |-> 0,
      ban_validated |-> 0, ban_failed |-> 0 ]

\* main of llm_extract_addresses.py with --year, up to the loop of
\* process_year: the file is loaded and its candidates are listed
LlmMain ==
    /\ geo_pc = "idle"
    /\ geo_runs < MaxRuns
    /\ geo_runs' = geo_runs + 1
    /\ geo_call' = NoCall
    /\ \E dry_run \in BOOLEAN : llm_dry_run' = dry_run
    /\ IF complet_file = None
       THEN /\ geo_ret' = [status |-> "NOT_FOUND"]
            /\ UNCHANGED <<projects, candidates, geo_i, geo_stats, geo_pc>>
       ELSE /\ projects' = complet_file.data
            /\ candidates' = candidates_of(complet_file.data, 1)
            /\ geo_i' = 1
            /\ geo_stats' = [LlmStats EXCEPT !.total_candidates =
                                 Len(candidates_of(complet_file.data, 1))]
            /\ geo_ret' = None
            /\ geo_pc' = "process_year"
    /\ UNCHANGED <<complet_file, lieux_connus, geo_cache_file, geo_cache_run>>
    /\ UNCHANGED <<amountVars, codesVars, extractVars, mergeVars, geminiVars, apVars, yearsVars, enrichVars, similarVars, investVars>>

\* the count of an extraction that was validated or failed at the API
count_llm(stats, counted) ==
    IF counted = "llm_low_confidence"
    THEN [stats EXCEPT !.llm_low_confidence = @ + 1]
    ELSE [stats EXCEPT !.llm_extracted = @ + 1, ![counted] = @ + 1]

\* one turn of the loop of process_year: the model is asked for an address
\* and the API validates it
LlmCandidate ==
    /\ geo_pc = "process_year"
    /\ geo_i <= Len(candidates)
    /\ \E llm_response \in LlmResponses :
       \E extraction \in {extract_address_llm(llm_response)} :
       \E ban_response \in (IF extraction = None THEN {NoResponse} ELSE ApiResponses) :
       \E c \in {llm_extracted(projects[candidates[geo_i]], llm_dry_run,
                               extraction, ban_response)} :
          /\ projects' = [projects EXCEPT ![candidates[geo_i]] = c.project]
          /\ geo_stats' = count_llm(geo_stats, c.counted)
          /\ geo_call' = [ op |-> "llm", index |-> candidates[geo_i],
                           before |-> projects[candidates[geo_i]],
                           after |-> c.project, llm_response |-> llm_response,
                           ban_response |-> ban_response,
                           extraction |-> c.extraction, validation |-> c.validation ]
    /\ geo_i' = geo_i + 1
    /\ UNCHANGED <<complet_file, lieux_connus, geo_cache_file, geo_cache_run, candidates,
                   llm_dry_run, geo_ret, geo_runs, geo_pc>>
    /\ UNCHANGED <<amountVars, codesVars, extractVars, mergeVars, geminiVars, apVars, yearsVars, enrichVars, similarVars, investVars>>

\* the end of process_year: the summary divides by the number of candidates
\* and raises when there is none; else the file is written when an address
\* was validated and the run is no dry run
LlmSave ==
    /\ geo_pc = "process_year"
    /\ geo_i > Len(candidates)
    /\ IF Len(candidates) = 0
       THEN /\ geo_ret' = [raised |-> "ZeroDivisionError"]
            /\ UNCHANGED complet_file
       ELSE /\ geo_ret' = Put(geo_stats, "status", "OK")
            /\ IF ~llm_dry_run /\ geo_stats.ban_validated > 0
               THEN complet_file' =
                        [ data |-> projects,
                          stats |-> Update(complet_file.stats,
                              [ geo_breakdown |->
                                    geo_breakdown(projects,
                                        {Get(projects[k], "geo_source", "none") :
                                            k \in 1..Len(projects)}),
                                llm_enriched |-> geo_stats.ban_validated ]) ]
               ELSE UNCHANGED complet_file
    /\ geo_pc' = "idle"
    /\ UNCHANGED <<lieux_connus, geo_cache_file, geo_cache_run, projects, candidates, geo_i,
                   geo_stats, llm_dry_run, geo_call, geo_runs>>
    /\ UNCHANGED <<amountVars, codesVars, extractVars, mergeVars, geminiVars, apVars, yearsVars, enrichVars, similarVars, investVars>>

GeoNext ==
    \/ GeocodeMain
    \/ GeocodeProject
    \/ GeocodeSave
    \/ LlmMain
    \/ LlmCandidate
    \/ LlmSave

SpecGeo == GeoInit /\ [][GeoNext]_vars

(***************************************************************************)
(* geocode_investments.py: the cache of geocode_api through the runs of    *)
(* main. A run loads the cache, looks texts up in any order, as the        *)
(* tiers of geocode_project do for the projects of the year, and saves     *)
(* the cache.                                                              *)
(***************************************************************************)

\* the texts looked up and their arrondissements
LookupQueries == {"12 rue Curial", "Stade Charlety"}

LookupArrondissements == {0, 19}

MaxLookups == 2

MaxLookupRuns == 2

LookupInit ==
    /\ InvestIdle
    /\ SimilarIdle
    /\ EnrichIdle
    /\ YearsIdle
    /\ GeminiIdle
    /\ ApIdle
    /\ AmountIdle
    /\ CodesIdle
    /\ ExtractIdle
    /\ MergeIdle
    /\ GeoIdle

\* main up to the loop over the years: load_geo_cache
LookupMain ==
    /\ geo_pc = "idle"
    /\ geo_runs < MaxLookupRuns
    /\ geo_runs' = geo_runs + 1
    /\ geo_cache_run' = load_geo_cache(geo_cache_file)
    /\ geo_i' = 0
    /\ geo_call' = NoCall
    /\ geo_pc' = "lookups"
    /\ UNCHANGED <<complet_file, lieux_connus, geo_cache_file, projects, candidates,
                   geo_stats, llm_dry_run, geo_ret>>
    /\ UNCHANGED <<amountVars, codesVars, extractVars, mergeVars, geminiVars, apVars, yearsVars, enrichVars, similarVars, investVars>>

\* geocode_api(query, arrondissement, geo_cache), the API answering each
\* request it sends with any response
ApiLookup ==
    /\ geo_pc = "lookups"
    /\ geo_i < MaxLookups
    /\ \E query \in LookupQueries :
       \E arrondissement \in LookupArrondissements :
       \E n \in 0..2 :
       \E responses \in ResponsesOf(n) :
       \E api \in {geocode_api(query, arrondissement, geo_cache_run,
                               responses[1], responses[2])} :
          /\ api.used = n
          /\ geo_cache_run' = api.geo_cache
          /\ geo_call' = [ op |-> "geocode_api",
                           key |-> cache_key(query, arrondissement),
                           result |-> api.result, requests |-> api.requests,
                           responses |-> responses, cache_before |-> geo_cache_run ]
    /\ geo_i' = geo_i + 1
    /\ UNCHANGED <<complet_file, lieux_connus, geo_cache_file, projects, candidates,
                   geo_stats, llm_dry_run, geo_ret, geo_runs, geo_pc>>
    /\ UNCHANGED <<amountVars, codesVars, extractVars, mergeVars, geminiVars, apVars, yearsVars, enrichVars, similarVars, investVars>>

\* the end of main: save_geo_cache
LookupSave ==
    /\ geo_pc = "lookups"
    /\ geo_cache_file' = geo_cache_run
    /\ geo_pc' = "idle"
    /\ UNCHANGED <<complet_file, lieux_connus, geo_cache_run, projects, candidates,
                   geo_i, geo_stats, llm_dry_run, geo_call, geo_ret, geo_runs>>
    /\ UNCHANGED <<amountVars, codesVars, extractVars, mergeVars, geminiVars, apVars, yearsVars, enrichVars, similarVars, investVars>>

LookupNext ==
    \/ LookupMain
    \/ ApiLookup
    \/ LookupSave

SpecLookup == LookupInit /\ [][LookupNext]_vars

(***************************************************************************)
(* enrich_geo_ap_llm.py and enrich_thematique_llm.py: call_gemini_batch    *)
(*                                                                         *)
(* A response of requests.post is [raises |-> TRUE] when the call raises,  *)
(* and else a record of its status code and its body. A body is            *)
(* [candidates |-> FALSE] when its JSON has no candidates or is no JSON,   *)
(* and else holds what the text of the first candidate gives: the objects  *)
(* json.loads returns when parsed is TRUE, and else the objects the        *)
(* pattern \{[^{}]+\} finds in the truncated text. An arrondissement 0     *)
(* stands for null.                                                        *)
(***************************************************************************)

THEMATIQUES ==
    { "Social", "Éducation", "Culture & Sport", "Environnement", "Transport",
      "Économie", "Administration", "Santé", "Logement", "Sécurité",
      "International", "Autre" }

\* the validation of an object of the response by enrich_geo_ap_llm.py: an
\* arrondissement out of 1..20 becomes null
valid_arrondissement(r) ==
    IF "arrondissement" \in DOMAIN r /\ r.arrondissement \notin 1..20
    THEN [r EXCEPT !.arrondissement = 0]
    ELSE r

\* the validation of an object of the response by enrich_thematique_llm.py:
\* a thematique out of the list becomes Associations
valid_thematique(r) ==
    IF Get(r, "thematique", "") \notin THEMATIQUES
    THEN Put(r, "thematique", "Associations")
    ELSE r

\* the results of a response that was parsed
parsed_results(script, objects) ==
    IF script = "enrich_geo_ap_llm"
    THEN [k \in 1..Len(objects) |-> valid_arrondissement(objects[k])]
    ELSE [k \in 1..Len(objects) |-> valid_thematique(objects[k])]

\* the results of a response that was repaired
repaired_results(script, objects) ==
    IF script = "enrich_geo_ap_llm"
    THEN objects
    ELSE [k \in 1..Len(objects) |-> valid_thematique(objects[k])]

\* what call_gemini_batch returns for the last response it received
batch_results_any_status(script, response) ==
    IF response.raises THEN << >>
    ELSE IF ~response.body.candidates THEN << >>
    ELSE IF response.body.parsed THEN parsed_results(script, response.body.objects)
    ELSE repaired_results(script, response.body.objects)

batch_results(script, response) ==
    IF response.raises THEN << >>
    ELSE IF response.status_code # 200 THEN << >>
    ELSE IF ~response.body.candidates THEN << >>
    ELSE IF response.body.parsed THEN parsed_results(script, response.body.objects)
    ELSE repaired_results(script, response.body.objects)

\* a request is sent again when the response has the status 429, twice at
\* most
retried_on_error(response, posts) ==
    ~response.raises /\ response.status_code # 200 /\ posts < 3

retried(response, posts) ==
    ~response.raises /\ response.status_code = 429 /\ posts < 3

\* the wait before the second and the third request
wait_before(posts) == IF posts = 1 THEN 30 ELSE 60

\* Objects of a response: an arrondissement of Paris, none, and one out of
\* range; a known and an unknown thematique
GeoObjects ==
    { [ap_code |-> "AP1", arrondissement |-> 12],
      [ap_code |-> "AP1", arrondissement |-> 0],
      [ap_code |-> "AP1", arrondissement |-> 25] }

ThematiqueObjects ==
    { [id |-> "0", thematique |-> "Social"],
      [id |-> "0", thematique |-> "Associations sportives"] }

ObjectsOf(script) ==
    IF script = "enrich_geo_ap_llm" THEN GeoObjects ELSE ThematiqueObjects

MaxObjects == 1

\* Responses of the service: an error of the connection, and the statuses
\* 200, 429 and 500, each with a body without candidates, a body that is
\* parsed or a truncated body
GeminiBodies(script) ==
    {[candidates |-> FALSE]}
    \cup {[candidates |-> TRUE, parsed |-> p, objects |-> o] :
             p \in BOOLEAN, o \in SeqsUpTo(ObjectsOf(script), MaxObjects)}

GeminiResponses(script) ==
    {[raises |-> TRUE]}
    \cup {[raises |-> FALSE, status_code |-> s, body |-> b] :
             s \in {200, 429, 500}, b \in GeminiBodies(script)}

GeminiInit ==
    /\ InvestIdle
    /\ SimilarIdle
    /\ EnrichIdle
    /\ YearsIdle
    /\ AmountIdle
    /\ CodesIdle
    /\ ExtractIdle
    /\ MergeIdle
    /\ GeoIdle
    /\ ApIdle
    /\ gem_script \in {"enrich_geo_ap_llm", "enrich_thematique_llm"}
    /\ gem_key \in BOOLEAN
    /\ gem_posts = << >>
    /\ gem_slept = << >>
    /\ gem_ret = None
    /\ gem_pc = "call"

\* call_gemini_batch up to its first request: without a key it raises
GeminiCall ==
    /\ gem_pc = "call"
    /\ IF gem_key
       THEN /\ gem_pc' = "post"
            /\ UNCHANGED gem_ret
       ELSE /\ gem_pc' = "done"
            /\ gem_ret' = [raised |-> "ValueError"]
    /\ UNCHANGED <<gem_script, gem_key, gem_posts, gem_slept>>
    /\ UNCHANGED <<amountVars, codesVars, extractVars, mergeVars, geoVars, apVars, yearsVars, enrichVars, similarVars, investVars>>

\* requests.post: the service answers with any response
GeminiPost ==
    /\ gem_pc = "post"
    /\ \E response \in GeminiResponses(gem_script) :
          /\ gem_posts' = Append(gem_posts, response)
          /\ gem_pc' = IF retried(response, Len(gem_posts) + 1) THEN "sleep" ELSE "parse"
    /\ UNCHANGED <<gem_script, gem_key, gem_slept, gem_ret>>
    /\ UNCHANGED <<amountVars, codesVars, extractVars, mergeVars, geoVars, apVars, yearsVars, enrichVars, similarVars, investVars>>

\* time.sleep(30), time.sleep(60)
GeminiSleep ==
    /\ gem_pc = "sleep"
    /\ gem_slept' = Append(gem_slept, wait_before(Len(gem_posts)))
    /\ gem_pc' = "post"
    /\ UNCHANGED <<gem_script, gem_key, gem_posts, gem_ret>>
    /\ UNCHANGED <<amountVars, codesVars, extractVars, mergeVars, geoVars, apVars, yearsVars, enrichVars, similarVars, investVars>>

\* the rest of call_gemini_batch: the last response is read and the
\* results are returned
GeminiReturn ==
    /\ gem_pc = "parse"
    /\ gem_ret' = [returned |-> batch_results(gem_script, gem_posts[Len(gem_posts)])]
    /\ gem_pc' = "done"
    /\ UNCHANGED <<gem_script, gem_key, gem_posts, gem_slept>>
    /\ UNCHANGED <<amountVars, codesVars, extractVars, mergeVars, geoVars, apVars, yearsVars, enrichVars, similarVars, investVars>>

GeminiNext ==
    \/ GeminiCall
    \/ GeminiPost
    \/ GeminiSleep
    \/ GeminiReturn

SpecGemini == GeminiInit /\ [][GeminiNext]_vars

\* call_gemini_batch runs on: a request returns or raises within its
\* timeout of 60 seconds, and a sleep ends
SpecGeminiFair == SpecGemini /\ WF_vars(GeminiNext)

(***************************************************************************)
(* geocode_ap_cache.py: the geocoding of seed_cache_geo_ap.csv             *)
(*                                                                         *)
(* A row is a dict of the columns read; an empty cell is "" and, for the   *)
(* arrondissement and the coordinates, 0.                                  *)
(***************************************************************************)

\* match_lieu_connu(nom_lieu, lieux) of geocode_ap_cache.py: the entry whose
\* pattern is the name, else the first entry whose pattern is in the name
\* or holds it
ap_lieu_exact(nom_upper, lieux) == {k \in 1..Len(lieux) : lieux[k].pattern = nom_upper}

ap_lieu_included(nom_upper, lieux) ==
    {k \in 1..Len(lieux) :
        contains(nom_upper, lieux[k].pattern) \/ contains(lieux[k].pattern, nom_upper)}

ap_lieu_of(lieux, exact, included) ==
    IF exact # {} THEN lieux[Max(exact)]
    ELSE IF included # {} THEN lieux[Min(included)]
    ELSE None

ap_match_lieu_connu(nom_lieu, lieux) ==
    IF nom_lieu = "" THEN None
    ELSE ap_lieu_of(lieux, ap_lieu_exact(strip(upper(nom_lieu)), lieux),
                    ap_lieu_included(strip(upper(nom_lieu)), lieux))

\* the result geocode_address and geocode_lieu build from features[0]: the
\* coordinates are not rounded here
ap_result(feature) ==
    [ lat |-> feature.coordinates[2], lon |-> feature.coordinates[1],
      score |-> Get(feature.properties, "score", 0),
      label |-> Get(feature.properties, "label", "") ]

\* geocode_address(adresse, arrondissement), the API answering r1 and r2:
\* the result and the number of requests sent
geocode_address(adresse, arrondissement, r1, r2) ==
    IF Len(strip(adresse)) < 3 THEN [result |-> None, used |-> 0]
    ELSE IF r1.raises THEN [result |-> None, used |-> 1]
    ELSE IF r1.features # << >> THEN [result |-> ap_result(r1.features[1]), used |-> 1]
    ELSE IF r2.raises THEN [result |-> None, used |-> 2]
    ELSE IF r2.features # << >> THEN [result |-> ap_result(r2.features[1]), used |-> 2]
    ELSE [result |-> None, used |-> 2]

\* geocode_lieu(nom_lieu, arrondissement), the API answering r
geocode_lieu(nom_lieu, arrondissement, r) ==
    IF Len(strip(nom_lieu)) < 3 THEN [result |-> None, used |-> 0]
    ELSE IF r.raises THEN [result |-> None, used |-> 1]
    ELSE IF paris_feature(r) THEN [result |-> ap_result(r.features[1]), used |-> 1]
    ELSE [result |-> None, used |-> 1]

\* the row with the coordinates of a result, rounded, and its source
ap_located(row, lat, lon, source) ==
    Update(row, [ode_latitude |-> lat, ode_longitude |-> lon, ode_source |-> source])

\* one turn of the loop of main past the registry: 3. the place name
ap_tier_lieu(row, nom_lieu, arrondissement, used, responses) ==
    IF nom_lieu # ""
    THEN LET geo == geocode_lieu(nom_lieu, arrondissement, responses[used + 1])
         IN  IF geo.result # None /\ geo.result.score > 30
             THEN [ row |-> ap_located(row, round6(geo.result.lat),
                                       round6(geo.result.lon), "api_lieu"),
                    counted |-> "from_api_lieu", used |-> used + geo.used ]
             ELSE [row |-> row, counted |-> "api_failed", used |-> used + geo.used]
    ELSE [row |-> row, counted |-> "api_failed", used |-> used]

\* 2. the address
ap_tier_address(row, adresse, nom_lieu, arrondissement, responses) ==
    IF adresse # ""
    THEN LET geo == geocode_address(adresse, arrondissement, responses[1], responses[2])
         IN  IF geo.result # None /\ geo.result.score > 40
             THEN [ row |-> ap_located(row, round6(geo.result.lat),
                                       round6(geo.result.lon), "api_adresse"),
                    counted |-> "from_api_address", used |-> geo.used ]
             ELSE ap_tier_lieu(row, nom_lieu, arrondissement, geo.used, responses)
    ELSE ap_tier_lieu(row, nom_lieu, arrondissement, 0, responses)

\* 1. the registry
ap_tier_lieu_connu(row, adresse, nom_lieu, arrondissement, lieu_match, responses) ==
    IF lieu_match # None /\ lieu_match.lat # 0
    THEN [ row |-> ap_located(row, lieu_match.lat, lieu_match.lon, "lieu_connu"),
           counted |-> "from_lieux_connus", used |-> 0 ]
    ELSE ap_tier_address(row, adresse, nom_lieu, arrondissement, responses)

\* one turn of the loop of main on a row
ap_row(row, lieux, responses) ==
    IF Get(row, "ode_latitude", 0) # 0 /\ Get(row, "ode_longitude", 0) # 0
    THEN [row |-> row, counted |-> "already_geocoded", used |-> 0]
    ELSE IF strip(Get(row, "ode_adresse", "")) = "" /\ strip(Get(row, "ode_nom_lieu", "")) = ""
    THEN [row |-> row, counted |-> "no_data", used |-> 0]
    ELSE ap_tier_lieu_connu(row, strip(Get(row, "ode_adresse", "")),
                            strip(Get(row, "ode_nom_lieu", "")),
                            Get(row, "ode_arrondissement", 0),
                            ap_match_lieu_connu(strip(Get(row, "ode_nom_lieu", "")), lieux),
                            responses)

\* Rows of the file: an address, an address and a place name, a place name
\* of the registry, a place name, a row geocoded before, an empty row
ApRowSamples ==
    { [ ap_code |-> "AP1", ode_adresse |-> "12 rue Curial", ode_nom_lieu |-> "",
        ode_arrondissement |-> 19, ode_latitude |-> 0, ode_longitude |-> 0,
        ode_source |-> "llm_gemini" ],
      [ ap_code |-> "AP2", ode_adresse |-> "12 rue Curial", ode_nom_lieu |-> "Stade Charlety",
        ode_arrondissement |-> 0, ode_latitude |-> 0, ode_longitude |-> 0,
        ode_source |-> "llm_gemini" ],
      [ ap_code |-> "AP3", ode_adresse |-> "", ode_nom_lieu |-> "Gymnase Japy",
        ode_arrondissement |-> 11, ode_latitude |-> 0, ode_longitude |-> 0,
        ode_source |-> "llm_gemini" ],
      [ ap_code |-> "AP4", ode_adresse |-> "", ode_nom_lieu |-> "Stade Charlety",
        ode_arrondissement |-> 13, ode_latitude |-> 0, ode_longitude |-> 0,
        ode_source |-> "llm_gemini" ],
      [ ap_code |-> "AP5", ode_adresse |-> "2 rue Japy", ode_nom_lieu |-> "",
        ode_arrondissement |-> 11, ode_latitude |-> 48855400, ode_longitude |-> 2380200,
        ode_source |-> "lieu_connu" ],
      [ ap_code |-> "AP6", ode_adresse |-> "", ode_nom_lieu |-> "",
        ode_arrondissement |-> 0, ode_latitude |-> 0, ode_longitude |-> 0,
        ode_source |-> "llm_not_found" ] }

MaxRows == 1

MaxApResponses == 3

ApResponsesOf(n) ==
    {[k \in 1..MaxApResponses |-> IF k <= n THEN rs[k] ELSE NoResponse] :
        rs \in [1..n -> ApiResponses]}

ApInit ==
    /\ InvestIdle
    /\ SimilarIdle
    /\ EnrichIdle
    /\ YearsIdle
    /\ AmountIdle
    /\ CodesIdle
    /\ ExtractIdle
    /\ MergeIdle
    /\ GeoIdle
    /\ GeminiIdle
    /\ ap_file \in SeqsUpTo(ApRowSamples, MaxRows)
    /\ ap_lieux \in LieuxSamples
    /\ ap_rows = << >>
    /\ ap_i = 0
    /\ ap_call = NoCall
    /\ ap_pc = "main"

\* main up to its loop: the registry and the rows are read
ApMain ==
    /\ ap_pc = "main"
    /\ ap_rows' = ap_file
    /\ ap_i' = 1
    /\ ap_pc' = "rows"
    /\ UNCHANGED <<ap_file, ap_lieux, ap_call>>
    /\ UNCHANGED <<amountVars, codesVars, extractVars, mergeVars, geoVars, geminiVars, yearsVars, enrichVars, similarVars, investVars>>

\* one turn of the loop of main, the API answering each request with any
\* response
ApRow ==
    /\ ap_pc = "rows"
    /\ ap_i <= Len(ap_rows)
    /\ \E n \in 0..MaxApResponses :
       \E responses \in ApResponsesOf(n) :
       \E g \in {ap_row(ap_rows[ap_i], ap_lieux, responses)} :
          /\ g.used = n
          /\ ap_rows' = [ap_rows EXCEPT ![ap_i] = g.row]
          /\ ap_call' = [ op |-> "row", before |-> ap_rows[ap_i], after |-> g.row,
                          counted |-> g.counted, responses |-> responses, used |-> n ]
    /\ ap_i' = ap_i + 1
    /\ UNCHANGED <<ap_file, ap_lieux, ap_pc>>
    /\ UNCHANGED <<amountVars, codesVars, extractVars, mergeVars, geoVars, geminiVars, yearsVars, enrichVars, similarVars, investVars>>

\* the end of main: the rows are written to the file
ApSave ==
    /\ ap_pc = "rows"
    /\ ap_i > Len(ap_rows)
    /\ ap_file' = ap_rows
    /\ ap_pc' = "done"
    /\ UNCHANGED <<ap_lieux, ap_rows, ap_i, ap_call>>
    /\ UNCHANGED <<amountVars, codesVars, extractVars, mergeVars, geoVars, geminiVars, yearsVars, enrichVars, similarVars, investVars>>

ApNext ==
    \/ ApMain
    \/ ApRow
    \/ ApSave

SpecAp == ApInit /\ [][ApNext]_vars

(***************************************************************************)
(* main of extract_pdf_budget_vote.py and of extract_pdf_investments.py:   *)
(* the loop over the years                                                 *)
(*                                                                         *)
(* requests.get in download_pdf either gives the file or raises (a         *)
(* connection error, a timeout, or raise_for_status on a 404).             *)
(***************************************************************************)

\* sorted(PDF_SOURCES.keys()) of extract_pdf_budget_vote.py
BUDGET_VOTE_YEARS == <<2023, 2024, 2025, 2026>>

\* list(PDF_SOURCES.keys()) of extract_pdf_investments.py
INVESTMENTS_YEARS == <<2024, 2023, 2022, 2021>>

\* the years of PDF_SOURCES of a script
source_years(script) ==
    IF script = "extract_pdf_budget_vote" THEN BUDGET_VOTE_YEARS ELSE INVESTMENTS_YEARS

\* years = [args.year] if args.year else the years of PDF_SOURCES
years_of(script, all_years, year) ==
    IF all_years THEN source_years(script) ELSE <<year>>

\* download_pdf(url): the file of the cache, else the file requests.get
\* gives, else the exception of requests.get or raise_for_status
download_pdf(year, cached, fetch) ==
    IF year \in cached THEN [raised |-> FALSE, cached |-> cached]
    ELSE IF fetch = "ok" THEN [raised |-> FALSE, cached |-> cached \cup {year}]
    ELSE [raised |-> TRUE, cached |-> cached]

\* one turn of a loop over years that catches nothing
year_uncaught(year, download, extracted, logged) ==
    IF download.raised
    THEN [extracted |-> extracted, logged |-> logged, raised |-> TRUE]
    ELSE [extracted |-> Append(extracted, year), logged |-> logged, raised |-> FALSE]

\* one turn of the loop of main of extract_pdf_investments.py: the
\* exception of extract_year is caught and printed
investments_year(year, download, extracted, logged) ==
    IF download.raised
    THEN [extracted |-> extracted, logged |-> Append(logged, year), raised |-> FALSE]
    ELSE [extracted |-> Append(extracted, year), logged |-> logged, raised |-> FALSE]

\* one turn of the loop of main of extract_pdf_budget_vote.py: nothing
\* catches the exception of download_pdf
budget_vote_year(year, download, extracted, logged) ==
    year_uncaught(year, download, extracted, logged)

YearsInit ==
    /\ InvestIdle
    /\ SimilarIdle
    /\ EnrichIdle
    /\ AmountIdle
    /\ CodesIdle
    /\ ExtractIdle
    /\ MergeIdle
    /\ GeoIdle
    /\ GeminiIdle
    /\ ApIdle
    /\ yr_script \in {"extract_pdf_budget_vote", "extract_pdf_investments"}
    /\ yr_all \in BOOLEAN
    /\ yr_years = << >>
    /\ yr_cached \in SUBSET Range(source_years(yr_script))
    /\ yr_i = 0
    /\ yr_extracted = << >>
    /\ yr_logged = << >>
    /\ yr_ret = None
    /\ yr_pc = "main"

\* main up to its loop
YearsMain ==
    /\ yr_pc = "main"
    /\ \E year \in Range(source_years(yr_script)) :
          yr_years' = years_of(yr_script, yr_all, year)
    /\ yr_i' = 1
    /\ yr_pc' = "years"
    /\ UNCHANGED <<yr_script, yr_all, yr_cached, yr_extracted, yr_logged, yr_ret>>
    /\ UNCHANGED <<amountVars, codesVars, extractVars, mergeVars, geoVars, geminiVars, apVars, enrichVars, similarVars, investVars>>

\* one turn of the loop over years of extract_pdf_budget_vote.py
BudgetVoteYear ==
    /\ yr_pc = "years"
    /\ yr_script = "extract_pdf_budget_vote"
    /\ yr_i <= Len(yr_years)
    /\ \E fetch \in {"ok", "raises"} :
       \E download \in {download_pdf(yr_years[yr_i], yr_cached, fetch)} :
       \E turn \in {budget_vote_year(yr_years[yr_i], download, yr_extracted, yr_logged)} :
          /\ yr_cached' = download.cached
          /\ yr_extracted' = turn.extracted
          /\ yr_logged' = turn.logged
          /\ yr_ret' = IF turn.raised THEN [raised |-> "RequestException"] ELSE yr_ret
          /\ yr_pc' = IF turn.raised THEN "done" ELSE yr_pc
    /\ yr_i' = yr_i + 1
    /\ UNCHANGED <<yr_script, yr_all, yr_years>>
    /\ UNCHANGED <<amountVars, codesVars, extractVars, mergeVars, geoVars, geminiVars, apVars, enrichVars, similarVars, investVars>>

\* one turn of the loop over years of extract_pdf_investments.py
InvestmentsYear ==
    /\ yr_pc = "years"
    /\ yr_script = "extract_pdf_investments"
    /\ yr_i <= Len(yr_years)
    /\ \E fetch \in {"ok", "raises"} :
       \E download \in {download_pdf(yr_years[yr_i], yr_cached, fetch)} :
       \E turn \in {investments_year(yr_years[yr_i], download, yr_extracted, yr_logged)} :
          /\ yr_cached' = download.cached
          /\ yr_extracted' = turn.extracted
          /\ yr_logged' = turn.logged
          /\ yr_ret' = IF turn.raised THEN [raised |-> "RequestException"] ELSE yr_ret
          /\ yr_pc' = IF turn.raised THEN "done" ELSE yr_pc
    /\ yr_i' = yr_i + 1
    /\ UNCHANGED <<yr_script, yr_all, yr_years>>
    /\ UNCHANGED <<amountVars, codesVars, extractVars, mergeVars, geoVars, geminiVars, apVars, enrichVars, similarVars, investVars>>

\* the loop has ended: the summary is printed and main returns
YearsEnd ==
    /\ yr_pc = "years"
    /\ yr_i > Len(yr_years)
    /\ yr_pc' = "done"
    /\ UNCHANGED <<yr_script, yr_all, yr_years, yr_cached, yr_i, yr_extracted, yr_logged, yr_ret>>
    /\ UNCHANGED <<amountVars, codesVars, extractVars, mergeVars, geoVars, geminiVars, apVars, enrichVars, similarVars, investVars>>

YearsNext ==
    \/ YearsMain
    \/ BudgetVoteYear
    \/ InvestmentsYear
    \/ YearsEnd

SpecYears == YearsInit /\ [][YearsNext]_vars

(***************************************************************************)
(* main of enrich_geo_ap_llm.py and of enrich_thematique_llm.py: the       *)
(* cache of the seed file, the selection of the rows to process and the    *)
(* loop over batches                                                       *)
(*                                                                         *)
(* The process can be killed between any two steps. save_cache opens the   *)
(* seed file for writing, which empties it, and then writes the rows of    *)
(* the cache: the two are steps of their own, since the file on disk is    *)
(* not the same between them.                                              *)
(***************************************************************************)

BATCH_SIZE == 10

PARETO_LIMIT == 500

\* the number of rows of the query: one batch and the start of the next
MaxEnrichRows == 11

MaxEnrichRuns == 2

\* the objects of a response at most
MaxEnrichObjects == 2

\* the key of the k-th row of the query: an ap_code, or a
\* beneficiaire_normalise
row_key(script, k) ==
    IF script = "enrich_geo_ap_llm" THEN "AP" \o ToString(k) ELSE "BENEF " \o ToString(k)

EnrichRows(script, n) == [k \in 1..n |-> row_key(script, k)]

\* str(value) of an integer
str_of(value) == ToString(value)

\* load_existing_cache(): the rows of the seed file with a key
load_existing_cache(file) == [key \in DOMAIN file \ {""} |-> file[key]]

\* get_ap_to_geolocate(client, existing_cache, limit) on the rows of the
\* query: the rows whose key is not in the cache, actual_limit of them at
\* most; get_beneficiaires_to_classify is the same function
get_ap_to_geolocate_uncached(rows, existing_cache, limit) ==
    LET actual_limit == IF limit # 0 THEN limit ELSE PARETO_LIMIT
    IN  Slice(Slice(rows, 1, actual_limit * 2), 1, actual_limit)

get_ap_to_geolocate(rows, existing_cache, limit) ==
    LET actual_limit == IF limit # 0 THEN limit ELSE PARETO_LIMIT
        absent(key) == key \notin DOMAIN existing_cache
    IN  Slice(SelectSeq(Slice(rows, 1, actual_limit * 2), absent), 1, actual_limit)

get_beneficiaires_to_classify(rows, existing_cache, limit) ==
    get_ap_to_geolocate(rows, existing_cache, limit)

\* batch = to_process[i:i+BATCH_SIZE], i counted from 1 here
batch_at(to_process, i) == Slice(to_process, i, i + BATCH_SIZE - 1)

\* the key the results of the model are looked up by: the ap_code of the
\* project, or str(j) for the j-th beneficiaire of the batch, from 0
lookup_key(script, batch, j) ==
    IF script = "enrich_geo_ap_llm" THEN batch[j] ELSE str_of(j - 1)

\* the key of a result: r.get('ap_code'), or r.get('id')
result_key(script, r) ==
    IF script = "enrich_geo_ap_llm" THEN Get(r, "ap_code", "") ELSE Get(r, "id", "")

\* results_map.get(key): the last result with the key, None without one
results_map_get(script, batch_results_, key) ==
    LET with_key == {k \in 1..Len(batch_results_) :
                        /\ result_key(script, batch_results_[k]) # ""
                        /\ result_key(script, batch_results_[k]) = key}
    IN  IF with_key = {} THEN None ELSE batch_results_[Max(with_key)]

\* the entry of the cache main writes for a project of enrich_geo_ap_llm.py
\* or no entry (None): llm_gemini with an arrondissement, llm_not_found with
\* a result without one, nothing without a result
geo_entry(result) ==
    IF result # None /\ Get(result, "arrondissement", 0) # 0
    THEN [ arrondissement |-> str_of(result.arrondissement),
           adresse |-> Get(result, "adresse", ""),
           nom_lieu |-> Get(result, "nom_lieu", ""),
           latitude |-> "", longitude |-> "", source |-> "llm_gemini" ]
    ELSE IF result # None
    THEN [ arrondissement |-> "", adresse |-> "", nom_lieu |-> "",
           latitude |-> "", longitude |-> "", source |-> "llm_not_found" ]
    ELSE None

\* the entry main writes for a beneficiaire of enrich_thematique_llm.py
thematique_entry(result) ==
    IF result # None /\ Get(result, "thematique", "") # ""
    THEN [ thematique |-> result.thematique,
           sous_categorie |-> Get(result, "sous_categorie", ""),
           source |-> "llm_gemini" ]
    ELSE None

\* an entry for every item of the batch, whatever the results
cache_entry_always(script, result) ==
    IF script = "enrich_geo_ap_llm"
    THEN geo_entry([ap_code |-> "", arrondissement |-> 0])
    ELSE thematique_entry([id |-> "", thematique |-> "Associations"])

cache_entry(script, result) ==
    IF script = "enrich_geo_ap_llm" THEN geo_entry(result) ELSE thematique_entry(result)

\* the loop of main over the items of a batch, from the j-th one
RECURSIVE batch_cached(_, _, _, _, _)
batch_cached(script, batch, batch_results_, cache, j) ==
    IF j > Len(batch) THEN cache
    ELSE LET result == results_map_get(script, batch_results_, lookup_key(script, batch, j))
             entry == cache_entry(script, result)
         IN  batch_cached(script, batch, batch_results_,
                          IF entry = None THEN cache ELSE Put(cache, batch[j], entry),
                          j + 1)

\* Objects of a response to a batch: for its first two items, for no item
\* and for an item that is not of the batch; an arrondissement of Paris,
\* none, and one out of range; a known and an unknown thematique
EnrichObjects(script, batch) ==
    IF script = "enrich_geo_ap_llm"
    THEN {[ap_code |-> c, arrondissement |-> a] :
             c \in Range(Slice(batch, 1, 2)) \cup {"", "AP0"}, a \in {12, 0, 25}}
    ELSE {[id |-> d, thematique |-> t] :
             d \in {"0", "1", "", "99"}, t \in {"Social", "Associations sportives"}}

\* Responses to a batch: an error of the connection, the status 500, and a
\* status 200 without candidates, parsed or repaired
EnrichResponses(script, batch) ==
    {[raises |-> TRUE]}
    \cup {[raises |-> FALSE, status_code |-> 500, body |-> [candidates |-> FALSE]]}
    \cup {[raises |-> FALSE, status_code |-> 200, body |-> [candidates |-> FALSE]]}
    \cup {[raises |-> FALSE, status_code |-> 200,
           body |-> [candidates |-> TRUE, parsed |-> p, objects |-> o]] :
             p \in BOOLEAN, o \in SeqsUpTo(EnrichObjects(script, batch), MaxEnrichObjects)}

\* Seed files of the start: none, and one an earlier run wrote the first
\* row to
EnrichFiles(script) ==
    { EmptyDict,
      Put(EmptyDict, row_key(script, 1),
          cache_entry(script, IF script = "enrich_geo_ap_llm"
                           THEN [ap_code |-> row_key(script, 1), arrondissement |-> 12]
                           ELSE [id |-> "0", thematique |-> "Social"])) }

EnrichInit ==
    /\ InvestIdle
    /\ SimilarIdle
    /\ AmountIdle
    /\ CodesIdle
    /\ ExtractIdle
    /\ MergeIdle
    /\ GeoIdle
    /\ GeminiIdle
    /\ ApIdle
    /\ YearsIdle
    /\ en_script \in {"enrich_geo_ap_llm", "enrich_thematique_llm"}
    /\ en_rows \in {EnrichRows(en_script, n) : n \in {0, 1, MaxEnrichRows}}
    /\ en_file \in EnrichFiles(en_script)
    /\ en_cache = EmptyDict
    /\ en_loaded = EmptyDict
    /\ en_to_process = << >>
    /\ en_i = 0
    /\ en_call = [op |-> "none"]
    /\ en_done = en_file
    /\ en_runs = 0
    /\ en_pc = "idle"

\* main up to its loop: the cache is loaded and the rows to process are
\* selected; main returns when there is none and after a dry run
EnrichMain ==
    /\ en_pc = "idle"
    /\ en_runs < MaxEnrichRuns
    /\ en_runs' = en_runs + 1
    /\ \E dry_run \in BOOLEAN :
       \E cache \in {load_existing_cache(en_file)} :
       \E to_process \in {IF en_script = "enrich_geo_ap_llm"
                          THEN get_ap_to_geolocate(en_rows, cache, 0)
                          ELSE get_beneficiaires_to_classify(en_rows, cache, 0)} :
          /\ en_cache' = cache
          /\ en_loaded' = cache
          /\ en_to_process' = to_process
          /\ en_pc' = IF to_process = << >> \/ dry_run THEN "idle" ELSE "batches"
    /\ en_i' = 1
    /\ en_call' = [op |-> "none"]
    /\ UNCHANGED <<en_script, en_rows, en_file, en_done>>
    /\ UNCHANGED <<amountVars, codesVars, extractVars, mergeVars, geoVars, geminiVars, apVars, yearsVars, similarVars, investVars>>

\* one turn of the loop over batches up to save_cache: the model is called
\* and an entry is written to the cache for the items it answered
EnrichBatch ==
    /\ en_pc = "batches"
    /\ en_i <= Len(en_to_process)
    /\ \E batch \in {batch_at(en_to_process, en_i)} :
       \E response \in EnrichResponses(en_script, batch) :
       \E results \in {batch_results(en_script, response)} :
       \E cache \in {batch_cached(en_script, batch, results, en_cache, 1)} :
          /\ en_cache' = cache
          /\ en_call' = [ op |-> "batch", batch |-> batch, response |-> response,
                          batch_results |-> results,
                          cache_before |-> en_cache, cache_after |-> cache ]
    /\ en_pc' = "save"
    /\ UNCHANGED <<en_script, en_rows, en_file, en_loaded, en_to_process, en_i, en_done, en_runs>>
    /\ UNCHANGED <<amountVars, codesVars, extractVars, mergeVars, geoVars, geminiVars, apVars, yearsVars, similarVars, investVars>>

\* save_cache(cache): open(SEED_PATH, 'w') empties the seed file
EnrichOpen ==
    /\ en_pc = "save"
    /\ en_file' = EmptyDict
    /\ en_pc' = "write"
    /\ UNCHANGED <<en_script, en_rows, en_cache, en_loaded, en_to_process, en_i, en_call, en_done, en_runs>>
    /\ UNCHANGED <<amountVars, codesVars, extractVars, mergeVars, geoVars, geminiVars, apVars, yearsVars, similarVars, investVars>>

\* save_cache(cache): the rows of the cache are written and the file is
\* closed; the loop goes to the next batch, main returns after the last
EnrichWrite ==
    /\ en_pc = "write"
    /\ en_file' = en_cache
    /\ en_done' = en_cache
    /\ en_i' = en_i + BATCH_SIZE
    /\ en_pc' = IF en_i + BATCH_SIZE > Len(en_to_process) THEN "idle" ELSE "batches"
    /\ UNCHANGED <<en_script, en_rows, en_cache, en_loaded, en_to_process, en_call, en_runs>>
    /\ UNCHANGED <<amountVars, codesVars, extractVars, mergeVars, geoVars, geminiVars, apVars, yearsVars, similarVars, investVars>>

\* the process is killed during the loop: the seed file stays as it is
EnrichCrash ==
    /\ en_pc \in {"batches", "save", "write"}
    /\ en_pc' = "idle"
    /\ en_call' = [op |-> "crash", at |-> en_pc]
    /\ UNCHANGED <<en_script, en_rows, en_file, en_cache, en_loaded, en_to_process, en_i, en_done, en_runs>>
    /\ UNCHANGED <<amountVars, codesVars, extractVars, mergeVars, geoVars, geminiVars, apVars, yearsVars, similarVars, investVars>>

EnrichNext ==
    \/ EnrichMain
    \/ EnrichBatch
    \/ EnrichOpen
    \/ EnrichWrite
    \/ EnrichCrash

SpecEnrich == EnrichInit /\ [][EnrichNext]_vars

(***************************************************************************)
(* is_similar_project and the test already_in_pdf of merge_year, on names  *)
(* of projects                                                             *)
(***************************************************************************)

\* Names of projects of the PDF
SimilarPdfNames ==
    { "Ecole Jean Jaures 15e", "Travaux ecole Jean Jaures",
      "Renovation piscine Pontoise", "Gymnase Japy" }

\* Names of entries of BigQuery: with four words longer than three
\* characters of which the first three, or the three longest, are in a name
\* of the PDF; with three such words; with one; with none
SimilarBqNames ==
    { "Ecole Jean Jaures renovation", "Bain piscine Pontoise renovation",
      "JAURES - Ecole - Travaux", "RENOVATION de la piscine (Pontoise)",
      "Japy", "Rue de la Py" }

MaxSimilarPdf == 2

SimilarInit ==
    /\ InvestIdle
    /\ AmountIdle
    /\ CodesIdle
    /\ ExtractIdle
    /\ MergeIdle
    /\ GeoIdle
    /\ GeminiIdle
    /\ ApIdle
    /\ YearsIdle
    /\ EnrichIdle
    /\ sim_pdf \in SeqsUpTo({[nom_projet |-> name] : name \in SimilarPdfNames}, MaxSimilarPdf)
    /\ sim_bq \in SimilarBqNames
    /\ sim_ret = None
    /\ sim_pc = "ready"

\* is_similar_project(p.get('nom_projet', ''), name) for every p of
\* pdf_data, and already_in_pdf
SimilarCall ==
    /\ sim_pc = "ready"
    /\ sim_ret' = [ similar |-> [k \in 1..Len(sim_pdf) |->
                                    is_similar_project(sim_pdf[k].nom_projet, sim_bq)],
                    already_in_pdf |-> already_in_pdf(sim_pdf, sim_bq) ]
    /\ sim_pc' = "done"
    /\ UNCHANGED <<sim_pdf, sim_bq>>
    /\ UNCHANGED <<amountVars, codesVars, extractVars, mergeVars, geoVars, geminiVars, apVars, yearsVars, enrichVars, investVars>>

SimilarNext == SimilarCall

SpecSimilar == SimilarInit /\ [][SimilarNext]_vars

(***************************************************************************)
(* extract_pdf_investments.py: extract_page_with_regex,                    *)
(* extract_page_with_llm and the loop of extract_year over the pages       *)
(*                                                                         *)
(* An amount is a Float of two decimals; sums and differences are taken    *)
(* on the hundredths. A warning is its text without the numbers printed    *)
(* in it, with the two totals it compares. A project is its name, its      *)
(* amount and its page. main returns before the loop over the years        *)
(* without GEMINI_API_KEY, so the key is set in extract_year.              *)
(***************************************************************************)

MAX_LLM_FAILURES == 3

\* the tolerance of the checks of the totals, in euros
TotalTolerance == 100

\* the pages of a document
MaxInvestPages == 4

\* [\d\s]
AmountChar(c) == IsDigit(c) \/ IsSpace(c)

\* the number of characters of [\d\s] of str from position i
RECURSIVE AmountRun(_, _)
AmountRun(str, i) ==
    IF i <= Len(str) /\ AmountChar(Ch(str, i)) THEN 1 + AmountRun(str, i + 1) ELSE 0

\* amount_pattern, ([\d\s]+(?:[\d\s]*)[,\.]\d{2}), tried at position i: the
\* length of the match, 0 when none. The run of [\d\s] is taken whole, as
\* the separator is not of [\d\s].
amount_pattern(str, i) ==
    IF /\ AmountRun(str, i) >= 1
       /\ Ch(str, i + AmountRun(str, i)) \in {",", "."}
       /\ IsDigit(Ch(str, i + AmountRun(str, i) + 1))
       /\ IsDigit(Ch(str, i + AmountRun(str, i) + 2))
    THEN AmountRun(str, i) + 3
    ELSE 0

\* the match of amount_pattern at position i
amount_match_at(line, i) ==
    [start |-> i, group |-> Slice(line, i, i + amount_pattern(line, i) - 1)]

\* the leftmost of the positions of a set, 0 for none
Leftmost(starts) == IF starts = {} THEN 0 ELSE Min(starts)

\* re.search(amount_pattern, line): the start and the group of the leftmost
\* match, None without one
amount_match_of(line) ==
    IF \A i \in 1..Len(line) : amount_pattern(line, i) = 0
    THEN None
    ELSE amount_match_at(line, Leftmost({i \in 1..Len(line) : amount_pattern(line, i) > 0}))

\* group.replace(' ', '').replace(',', '.')
amount_str_of(group) == replace(replace(group, " ", ""), ",", ".")

\* Total\s+g[eé]n[eé]ral with re.IGNORECASE tried at position i: the
\* position after the match, 0 when none
TotalGeneralEnd(text, i) ==
    LET g == i + 5 + SpaceRun(text, i + 5) IN
    IF /\ lower(Slice(text, i, i + 4)) = "total"
       /\ SpaceRun(text, i + 5) >= 1
       /\ lower(Ch(text, g)) = "g"
       /\ lower(Ch(text, g + 1)) \in {"e", "é"}
       /\ lower(Ch(text, g + 2)) = "n"
       /\ lower(Ch(text, g + 3)) \in {"e", "é"}
       /\ lower(Slice(text, g + 4, g + 6)) = "ral"
    THEN g + 7
    ELSE 0

\* the group of amount_pattern after the label that ends before position
\* j: \s* takes the whitespace after the label, but for one character when
\* nothing else is left for [\d\s]+
total_group(page_content, j, w, run) ==
    Slice(page_content, j + (IF run > w THEN w ELSE w - 1), j + run + 2)

\* Total\s+g[eé]n[eé]ral\s* followed by amount_pattern, with the label
\* ending before position j (0 for no label): the group of the amount, ""
\* without a match
total_group_after(page_content, j) ==
    IF j > 0 /\ amount_pattern(page_content, j) > 0
    THEN total_group(page_content, j, SpaceRun(page_content, j), AmountRun(page_content, j))
    ELSE ""

total_group_at(page_content, i) ==
    IF i = 0 THEN "" ELSE total_group_after(page_content, TotalGeneralEnd(page_content, i))

\* re.search(r'Total\s+g[eé]n[eé]ral\s*' + amount_pattern, page_content,
\* re.IGNORECASE): the group of the amount of the leftmost match, "" without
\* a match
total_match_of(page_content) ==
    total_group_at(page_content,
                   Leftmost({i \in 1..Len(page_content) :
                                /\ Ch(page_content, i) \in {"t", "T"}
                                /\ total_group_at(page_content, i) # ""}))

\* the number of full stops of str from position i
RECURSIVE DotRun(_, _)
DotRun(str, i) ==
    IF i <= Len(str) /\ Ch(str, i) = "." THEN 1 + DotRun(str, i + 1) ELSE 0

\* re.sub(r'[\.]{2,}', '', name)
RECURSIVE sub_dots(_)
sub_dots(name) ==
    IF name = "" THEN ""
    ELSE IF DotRun(name, 1) >= 2
    THEN sub_dots(Slice(name, DotRun(name, 1) + 1, Len(name)))
    ELSE Ch(name, 1) \o sub_dots(Tail(name))

\* re.sub(r'\s+', ' ', name)
RECURSIVE sub_spaces(_)
sub_spaces(name) ==
    IF name = "" THEN ""
    ELSE IF SpaceRun(name, 1) >= 1
    THEN " " \o sub_spaces(Slice(name, SpaceRun(name, 1) + 1, Len(name)))
    ELSE Ch(name, 1) \o sub_spaces(Tail(name))

\* a ProjetInvestissement
Projet(nom_projet, montant, source_page) ==
    [nom_projet |-> nom_projet, montant |-> montant, source_page |-> source_page]

\* a warning of a page
Warning(text, calcule, attendu) == [text |-> text, calcule |-> calcule, attendu |-> attendu]

\* an ExtractionResult
ExtractionResult(page_num, projets, total_page, warnings) ==
    [page_num |-> page_num, projets |-> projets, total_page |-> total_page, warnings |-> warnings]

\* sum(p.montant for p in projets), in hundredths
RECURSIVE sum_montants(_)
sum_montants(projets) ==
    IF projets = << >> THEN 0
    ELSE projets[1].montant.mant + sum_montants(Tail(projets))

\* abs(total - expected) > 100, on hundredths
ecart_total(total, expected) ==
    (IF total >= expected THEN total - expected ELSE expected - total) > TotalTolerance * 100

\* the name of the project of a line with an amount: what stands before
\* the amount when it is longer than min_len, the line before otherwise
name_of(before_amount, prev_line, min_len) ==
    IF before_amount # "" /\ Len(before_amount) > min_len
    THEN before_amount
    ELSE strip(prev_line)

\* line[:amount_match.start()].strip()
before_amount_of(line, amount_match) == strip(Slice(line, 1, amount_match.start - 1))

\* any(w.lower() in name.lower() for w in skip_words), on the lowered name
summary_skip(lowered) ==
    \E w \in {"Total", "MONTANT", "Type AP", "Chapitre"} : contains(lowered, lower(w))

\* the projects of the branch is_summary after a line with an amount that
\* float reads
summary_projet(projets, name, amount, page_num) ==
    IF name # "" /\ Len(name) > 5 /\ amount.mant > 0 /\ ~summary_skip(lower(name))
    THEN Append(projets, Projet(name, amount, page_num))
    ELSE projets

\* the loop of the branch is_summary over the lines, from the k-th line:
\* a line whose amount float cannot read is not kept as the line before
RECURSIVE summary_lines(_, _, _, _, _)
RECURSIVE summary_amount(_, _, _, _, _, _, _)
RECURSIVE summary_line(_, _, _, _, _, _, _)
summary_amount(lines, k, prev_line, projets, page_num, line, amount_match) ==
    summary_line(lines, k, prev_line, projets, page_num, line,
                 [ str |-> amount_str_of(amount_match.group),
                   name |-> name_of(before_amount_of(line, amount_match), prev_line, 5) ])

summary_line(lines, k, prev_line, projets, page_num, line, found) ==
    IF ~float_ok(found.str)
    THEN summary_lines(lines, k + 1, prev_line, projets, page_num)
    ELSE summary_lines(lines, k + 1, line,
                       summary_projet(projets, found.name, float_value(found.str), page_num),
                       page_num)

summary_match(lines, k, prev_line, projets, page_num, line, amount_match) ==
    IF amount_match = None
    THEN summary_lines(lines, k + 1, line, projets, page_num)
    ELSE summary_amount(lines, k, prev_line, projets, page_num, line, amount_match)

summary_stripped(lines, k, prev_line, projets, page_num, line) ==
    summary_match(lines, k, prev_line, projets, page_num, line, amount_match_of(line))

summary_lines(lines, k, prev_line, projets, page_num) ==
    IF k > Len(lines) THEN projets
    ELSE summary_stripped(lines, k, prev_line, projets, page_num, strip(lines[k]))

\* any(w in name for w in skip_words)
detail_skip(name) ==
    \E w \in {"MONTANT", "Total", "Chapitre", "Type AP", "Entretien -"} : contains(name, w)

\* the projects of the branch is_detail after a line with an amount that
\* float reads
detail_projet(projets, name, amount, page_num) ==
    IF name # "" /\ Len(name) > 10 /\ amount.mant > 0 /\ ~detail_skip(name)
    THEN Append(projets, Projet(name, amount, page_num))
    ELSE projets

\* the loop of the branch is_detail over the lines, from the k-th line
RECURSIVE detail_lines(_, _, _, _, _)
RECURSIVE detail_amount(_, _, _, _, _, _, _)
RECURSIVE detail_line(_, _, _, _, _, _, _)
detail_amount(lines, k, prev_line, projets, page_num, line, amount_match) ==
    detail_line(lines, k, prev_line, projets, page_num, line,
                [ str |-> amount_str_of(amount_match.group),
                  name |-> sub_spaces(strip(sub_dots(
                              name_of(before_amount_of(line, amount_match), prev_line, 10)))) ])

detail_line(lines, k, prev_line, projets, page_num, line, found) ==
    IF ~float_ok(found.str)
    THEN detail_lines(lines, k + 1, prev_line, projets, page_num)
    ELSE detail_lines(lines, k + 1, line,
                      detail_projet(projets, found.name, float_value(found.str), page_num),
                      page_num)

detail_match(lines, k, prev_line, projets, page_num, line, amount_match) ==
    IF amount_match = None
    THEN detail_lines(lines, k + 1, line, projets, page_num)
    ELSE detail_amount(lines, k, prev_line, projets, page_num, line, amount_match)

detail_stripped(lines, k, prev_line, projets, page_num, line) ==
    detail_match(lines, k, prev_line, projets, page_num, line, amount_match_of(line))

detail_lines(lines, k, prev_line, projets, page_num) ==
    IF k > Len(lines) THEN projets
    ELSE detail_stripped(lines, k, prev_line, projets, page_num, strip(lines[k]))

\* the warnings with the one of a total that differs by more than the
\* tolerance
ecart_warnings(warnings, total, expected) ==
    IF ecart_total(total, expected)
    THEN Append(warnings, Warning("Ecart total", total, expected))
    ELSE warnings

\* the check of the total after the search of the total of the page:
\* nothing is added without a match and when float cannot read the amount
coherence_checked(total_match, projets, warnings) ==
    IF total_match # "" /\ float_ok(amount_str_of(total_match))
    THEN ecart_warnings(warnings, sum_montants(projets),
                        float_value(amount_str_of(total_match)).mant)
    ELSE warnings

\* the check of the total of extract_page_with_regex
coherence_warnings(page_content, projets, warnings) ==
    coherence_checked(total_match_of(page_content), projets, warnings)

\* total_page of a page that is a summary only
summary_total(total_match) ==
    IF total_match # "" /\ float_ok(amount_str_of(total_match))
    THEN float_value(amount_str_of(total_match)).mant
    ELSE 0

\* the result of a page that is a summary only
summary_result(page_num, total_page) ==
    ExtractionResult(page_num, << >>, total_page,
                     <<Warning("Page recapitulative ignoree", 0, total_page)>>)

\* the result of the other pages, after their projects
checked_result(page_num, page_content, projets, warnings) ==
    ExtractionResult(page_num, projets, sum_montants(projets),
                     coherence_warnings(page_content, projets, warnings))

\* the branches of extract_page_with_regex after the kind of the page
regex_result(page_num, page_content, is_summary, is_detail) ==
    IF is_summary /\ ~is_detail
    THEN summary_result(page_num, summary_total(total_match_of(page_content)))
    ELSE IF is_summary
    THEN checked_result(page_num, page_content,
                     summary_lines(split_lines(page_content), 1, "", << >>, page_num), << >>)
    ELSE IF is_detail
    THEN checked_result(page_num, page_content,
                     detail_lines(split_lines(page_content), 1, "", << >>, page_num), << >>)
    ELSE checked_result(page_num, page_content, << >>,
                     <<Warning("Format de page non reconnu pour extraction regex", 0, 0)>>)

\* extract_page_with_regex(page_num, page_content, year, pdf_source,
\* forced_arrondissement). (The expression of the total of a page that is
\* a summary only has \s*\n?\s* for \s*, which matches the same texts.)
extract_page_with_regex(page_num, page_content) ==
    regex_result(page_num, page_content,
                 \/ contains(page_content, "Présentation par type")
                 \/ contains(page_content, "Type AP"),
                 contains(page_content, "Principales opérations"))

\* Responses of the model to the prompt of a page: generate_content raises
\* (raises is the text of the exception), or gives a text that json.loads
\* rejects, or the JSON object of a page: est_page_il, the amounts of
\* "projets" and total_page_indique, 0 for one that is null or absent
LlmResponse(raises, json, est_page_il, montants, total_page_indique) ==
    [ raises |-> raises, json |-> json, est_page_il |-> est_page_il,
      montants |-> montants, total_page_indique |-> total_page_indique ]

NoLlmResponse == LlmResponse("", FALSE, FALSE, << >>, 0)

PageResponses ==
    { LlmResponse("429 RESOURCE_EXHAUSTED", FALSE, FALSE, << >>, 0),
      LlmResponse("500 INTERNAL", FALSE, FALSE, << >>, 0),
      LlmResponse("", FALSE, FALSE, << >>, 0),
      LlmResponse("", TRUE, FALSE, << >>, 0) }
    \cup { LlmResponse("", TRUE, TRUE, << >>, t) : t \in {0, 920000} }
    \cup { LlmResponse("", TRUE, TRUE, <<Float(50000, 2), Float(70000, 2)>>, t) :
             t \in {0, 120000, 920000} }

\* the projects extract_page_with_llm builds from result["projets"]
RECURSIVE llm_projets(_, _)
llm_projets(montants, page_num) ==
    IF montants = << >> THEN << >>
    ELSE <<Projet("", montants[1], page_num)>> \o llm_projets(Tail(montants), page_num)

\* extract_page_with_llm(page_num, page_content, year, pdf_source): the
\* exception it raises ("" for none) and the result it returns. The key is
\* checked and google.genai is imported before the try; the call of the
\* model and all that follows is inside it, and any exception there gives
\* a result without projects.
extract_page_with_llm(page_num, key, sdk, response) ==
    LET projets == llm_projets(response.montants, page_num)
        total_calcule == sum_montants(projets)
        total_indique == response.total_page_indique
    IN  IF ~key THEN [raised |-> "GEMINI_API_KEY non configuree", result |-> None]
        ELSE IF ~sdk THEN [raised |-> "cannot import name 'genai'", result |-> None]
        ELSE IF response.raises # "" \/ ~response.json
        THEN [ raised |-> "",
               result |-> ExtractionResult(page_num, << >>, 0,
                                           <<Warning("Erreur extraction", 0, 0)>>) ]
        ELSE IF ~response.est_page_il
        THEN [ raised |-> "",
               result |-> ExtractionResult(page_num, << >>, 0,
                                           <<Warning("Page non-IL detectee", 0, 0)>>) ]
        ELSE [ raised |-> "",
               result |-> ExtractionResult(page_num, projets, total_calcule,
                              IF total_indique # 0 /\ ecart_total(total_calcule, total_indique)
                              THEN <<Warning("Ecart total", total_calcule, total_indique)>>
                              ELSE << >>) ]

\* use_llm = mode == "llm" or (mode == "auto" and GEMINI_API_KEY)
use_llm_of(mode, key) == mode = "llm" \/ (mode = "auto" /\ key)

\* One turn of the loop of extract_year over the pages of il_pages: the
\* model is tried, the regular expressions take the page when the model
\* gave no project, and the projects and warnings of the page are added.
extract_year_page(page_num, page_content, sdk, use_llm, llm_failed_count, response) ==
    LET called == use_llm /\ llm_failed_count < MAX_LLM_FAILURES
        llm == extract_page_with_llm(page_num, TRUE, sdk, response)
        raised == called /\ llm.raised # ""
        quota == /\ raised
                 /\ contains(llm.raised, "429") \/ contains(llm.raised, "RESOURCE_EXHAUSTED")
        llm_result == IF called /\ ~raised THEN llm.result ELSE None
        fallback == llm_result = None \/ llm_result.projets = << >>
        regex == extract_page_with_regex(page_num, page_content)
        use_after == use_llm /\ ~quota
        result == IF ~fallback THEN llm_result
                  ELSE IF use_after THEN regex
                  ELSE [regex EXCEPT !.warnings =
                           Append(@, Warning("Extraction regex (quota LLM epuise)", 0, 0))]
    IN  [ called |-> called,
          method |-> IF fallback THEN "regex" ELSE "llm",
          use_llm |-> use_after,
          llm_failed_count |-> IF ~called THEN llm_failed_count
                               ELSE IF raised THEN llm_failed_count + 1
                               ELSE 0,
          result |-> result ]

\* [f"Page {page_num}: {w}" for w in result.warnings]
page_warnings(page_num, warnings) ==
    [k \in 1..Len(warnings) |-> [page |-> page_num, warning |-> warnings[k]]]

\* Texts of pages: a page of details whose total is the sum of its
\* projects, one whose total is not, one whose total is not and is grouped
\* by non-breaking spaces, a summary, and a page of neither kind
PageTexts ==
    [ detail |->
        "Principales opérations\nEcole Boulard travaux\n500,00\n"
        \o "Gymnase Didot toiture ... 700,00\nTotal général\n1 200,00",
      ecart |->
        "Principales opérations\nEcole Boulard travaux\n500,00\n"
        \o "Gymnase Didot toiture ... 700,00\nTotal général\n9 200,00",
      nbsp |->
        "Principales opérations\nEcole Boulard travaux\n500,00\n"
        \o "Gymnase Didot toiture ... 700,00\nTotal général\n9" \o NBSP \o "200,00",
      summary |->
        "Type AP\nEntretien, reparations\n500,00\nTotal général 500,00",
      other |->
        "Budget primitif 2024\nTotal general 9 200,00" ]

PageContent(name) == PageTexts[name]

\* The documents, by their pages. identify_il_pages keeps no page of less
\* than 200 characters, and extract_year takes all the pages of a document
\* when none is kept.
InvestDocuments ==
    { <<"detail", "ecart", "nbsp", "summary">>,
      <<"other", "nbsp", "ecart", "detail">>,
      <<"nbsp", "summary">>,
      <<"summary", "other">> }

InvestInit ==
    /\ AmountIdle
    /\ CodesIdle
    /\ ExtractIdle
    /\ MergeIdle
    /\ GeoIdle
    /\ GeminiIdle
    /\ ApIdle
    /\ YearsIdle
    /\ EnrichIdle
    /\ SimilarIdle
    /\ inv_mode \in {"llm", "regex", "auto"}
    /\ inv_sdk \in BOOLEAN
    /\ inv_pages \in {Slice(d, 1, MaxInvestPages) : d \in InvestDocuments}
    /\ inv_i = 0
    /\ inv_use_llm = FALSE
    /\ inv_failed = 0
    /\ inv_projets = << >>
    /\ inv_warnings = << >>
    /\ inv_call = [op |-> "none"]
    /\ inv_quota = FALSE
    /\ inv_streak = 0
    /\ inv_pc = "idle"

\* extract_year up to its loop over the pages
InvestStart ==
    /\ inv_pc = "idle"
    /\ inv_use_llm' = use_llm_of(inv_mode, TRUE)
    /\ inv_failed' = 0
    /\ inv_projets' = << >>
    /\ inv_warnings' = << >>
    /\ inv_i' = 1
    /\ inv_pc' = "pages"
    /\ UNCHANGED <<inv_mode, inv_sdk, inv_pages, inv_call, inv_quota, inv_streak>>
    /\ UNCHANGED <<amountVars, codesVars, extractVars, mergeVars, geoVars, geminiVars, apVars, yearsVars, enrichVars, similarVars>>

\* One turn of the loop over the pages. inv_quota and inv_streak follow the
\* calls of the model by what they were answered: an exception or a text
\* that is no JSON is a failure.
InvestPage ==
    /\ inv_pc = "pages"
    /\ inv_i <= Len(inv_pages)
    /\ \E response \in IF inv_use_llm /\ inv_failed < MAX_LLM_FAILURES
                       THEN PageResponses ELSE {NoLlmResponse} :
       \E turn \in {extract_year_page(inv_i, PageContent(inv_pages[inv_i]), inv_sdk,
                                      inv_use_llm, inv_failed, response)} :
       \E failure \in {~inv_sdk \/ response.raises # "" \/ ~response.json} :
          /\ inv_use_llm' = turn.use_llm
          /\ inv_failed' = turn.llm_failed_count
          /\ inv_projets' = inv_projets \o turn.result.projets
          /\ inv_warnings' = inv_warnings \o page_warnings(inv_i, turn.result.warnings)
          /\ inv_quota' = (inv_quota \/ (turn.called /\ inv_sdk /\ contains(response.raises, "429")))
          /\ inv_streak' = IF ~turn.called THEN inv_streak
                           ELSE IF failure THEN inv_streak + 1
                           ELSE 0
          /\ inv_call' = [ op |-> "page", page_num |-> inv_i, text |-> inv_pages[inv_i],
                           called |-> turn.called, response |-> response,
                           failure |-> turn.called /\ failure,
                           method |-> turn.method, result |-> turn.result,
                           quota_before |-> inv_quota, streak_before |-> inv_streak ]
    /\ inv_i' = inv_i + 1
    /\ UNCHANGED <<inv_mode, inv_sdk, inv_pages, inv_pc>>
    /\ UNCHANGED <<amountVars, codesVars, extractVars, mergeVars, geoVars, geminiVars, apVars, yearsVars, enrichVars, similarVars>>

\* the loop has ended: extract_year returns the projects and the warnings
InvestEnd ==
    /\ inv_pc = "pages"
    /\ inv_i > Len(inv_pages)
    /\ inv_pc' = "done"
    /\ UNCHANGED <<inv_mode, inv_sdk, inv_pages, inv_i, inv_use_llm, inv_failed, inv_projets, inv_warnings, inv_call, inv_quota, inv_streak>>
    /\ UNCHANGED <<amountVars, codesVars, extractVars, mergeVars, geoVars, geminiVars, apVars, yearsVars, enrichVars, similarVars>>

InvestNext ==
    \/ InvestStart
    \/ InvestPage
    \/ InvestEnd

SpecInvest == InvestInit /\ [][InvestNext]_vars

(***************************************************************************)
(* Properties of parse_french_amount                                       *)
(***************************************************************************)

\* Groups of three digits, each after a space or a non-breaking space
RECURSIVE FrenchGroups(_)
FrenchGroups(str) ==
    \/ str = ""
    \/ /\ Len(str) >= 4
       /\ Ch(str, 1) \in {" ", NBSP}
       /\ DigitRun(str, 2) >= 3
       /\ FrenchGroups(Slice(str, 5, Len(str)))

\* A French-formatted amount: one to three digits, groups of three digits
\* separated by spaces or non-breaking spaces, a comma, two decimals.
IsFrenchAmount(str) ==
    /\ Len(str) >= 4
    /\ Ch(str, Len(str) - 2) = ","
    /\ IsDigit(Ch(str, Len(str) - 1)) /\ IsDigit(Ch(str, Len(str)))
    /\ LET int_part == Slice(str, 1, Len(str) - 3)
           lead == DigitRun(int_part, 1)
       IN  /\ lead \in 1..3
           /\ FrenchGroups(Slice(int_part, lead + 1, Len(int_part)))

\* The number a French-formatted amount denotes, in hundredths
FrenchValue(str) == Float(DigitsValue(OnlyDigits(str)), 2)

CountOf(str, chars) == Cardinality({i \in 1..Len(str) : Ch(str, i) \in chars})

\* Texts that are no numeral however they are cleaned: no digit, a letter,
\* or more than one comma or dot.
IsMalformedAmount(str) ==
    \/ CountOf(str, Digits) = 0
    \/ CountOf(str, {"a", "b", "c"}) > 0
    \/ CountOf(str, {",", "."}) > 1

IsStrictPrefix(code, other) ==
    /\ Len(code) < Len(other)
    /\ Slice(other, 1, Len(code)) = code

\* the place of the first appearance of code in seq
FirstIndex(seq, code) == CHOOSE i \in 1..Len(seq) :
    seq[i] = code /\ \A j \in 1..(i - 1) : seq[j] # code

\* C5: the returned codes are exactly the header sub-codes that are not a
\* strict prefix of another header sub-code, each once, in order of first
\* appearance; {"02", "020", "021"} gives {"020", "021"}.
C5_LeafCodesExact ==
    codes_pc = "done" =>
        /\ Range(codes_ret) =
              { code \in Range(codes_seen) :
                  ~\E other \in Range(codes_seen) : IsStrictPrefix(code, other) }
        /\ \A i, j \in 1..Len(codes_ret) : i # j => codes_ret[i] # codes_ret[j]
        /\ \A i, j \in 1..Len(codes_ret) :
              i < j => FirstIndex(codes_seen, codes_ret[i])
                         < FirstIndex(codes_seen, codes_ret[j])
        /\ Range(codes_seen) = {"02", "020", "021"}
              => Range(codes_ret) = {"020", "021"}

\* C5 witness: a header with the codes 02, 020 and 021 has been filtered
C5_Witness ==
    /\ codes_pc = "done"
    /\ Range(codes_seen) = {"02", "020", "021"}
    /\ codes_ret = <<"020", "021">>

(***************************************************************************)
(* Properties of the page scan and of the line extraction                  *)
(***************************************************************************)

SameContext(page, other) ==
    /\ page.section = other.section
    /\ page.chapitre_ref = other.chapitre_ref
    /\ page.chapitre_code = other.chapitre_code
    /\ page.chapitre_libelle = other.chapitre_libelle

\* row carries the section and the chapter of page, the page it is from
CarriesPage(row, page) ==
    /\ row.source_page = page.page_idx + 1
    /\ row.section = page.section
    /\ row.chapitre_code = page.chapitre_code
    /\ row.chapitre_libelle = page.chapitre_libelle

\* the sample pages that carry the label of a cross-presentation page
LabeledSamples == {PageLabeledInvest, PageLabeledFonct}

IsMarkerLine(line) ==
    \/ startswith(strip(line), "DEPENSES")
    \/ startswith(strip(line), "DÉPENSES")
    \/ startswith(strip(line), "RECETTES")

\* the direction in effect when line k of a page is read
SensBefore(call, k) == IF k = 1 THEN call.start ELSE call.trace[k - 1].sens

\* the direction in effect at the end of a page
SensAtEnd(call) ==
    IF call.trace = << >> THEN call.start ELSE call.trace[Len(call.trace)].sens

\* C2: in every turn of the pass over the ventilated pages, the direction a
\* labeled page starts with is unset and the direction a continuation
\* starts with is the direction at the end of the page before it; within the
\* page the direction changes on marker lines only; after the turn the
\* carried direction is unset when the next page is a labeled one and the
\* direction at the end of the page otherwise.
C2_Turn ==
    pi' = pi + 1 =>
        /\ page_call'.page_info = croisee_pages[pi + 1]
        /\ IF croisee_pages[pi + 1].is_continuation
           THEN page_call # None /\ page_call'.start = SensAtEnd(page_call)
           ELSE page_call'.start = NoSens
        /\ \A k \in 1..Len(page_call'.trace) :
              page_call'.trace[k].sens # SensBefore(page_call', k)
              => IsMarkerLine(page_call'.page_text[k])
        /\ page_call'.sens = SensAtEnd(page_call')
        /\ prev_sens' =
              IF pi + 1 < Len(croisee_pages) /\ ~croisee_pages[pi + 2].is_continuation
              THEN NoSens
              ELSE SensAtEnd(page_call')

C2_DirectionCarriedAndReset == [][C2_Turn]_vars

\* C2 witness: a continuation has been read that started with the direction
\* Recette of the page before it and gave rows under it, and the direction
\* is unset again before the labeled page that follows
C2_Witness ==
    /\ page_call # None
    /\ page_call.page_info.is_continuation
    /\ ~page_call.raised
    /\ page_call.start = Recette
    /\ page_call.results # << >>
    /\ page_call.sens = Recette
    /\ pi < Len(croisee_pages)
    /\ prev_sens = NoSens

\* the amount cells of a line: the matches of AMOUNT_RE, as <<first, last>>
Cells(line) == AmountMatches(strip(line), 1)

CellText(line, cell) == Slice(strip(line), cell[1], cell[2])

\* a cell that reads as a French amount above zero
IsPositiveCell(line, cell) ==
    /\ IsFrenchAmount(CellText(line, cell))
    /\ FrenchValue(CellText(line, cell)).mant > 0

\* a cell written with a minus sign
IsNegativeCell(line, cell) == Ch(strip(line), cell[1] - 1) = "-"

\* the values of the cells of line that read as a French amount above
\* zero, as a sequence; with unsigned, the cells written with a minus sign
\* are left out
RECURSIVE PositiveCellValues(_, _, _)
PositiveCellValues(line, cells, unsigned) ==
    IF cells = << >> THEN << >>
    ELSE (IF /\ IsPositiveCell(line, cells[1])
             /\ ~(unsigned /\ IsNegativeCell(line, cells[1]))
          THEN <<FrenchValue(CellText(line, cells[1]))>>
          ELSE << >>)
         \o PositiveCellValues(line, Tail(cells), unsigned)

\* every row has one of the values, and there are no more rows than values
RowsAmong(rows, values) ==
    /\ \A i \in 1..Len(rows) : \E k \in 1..Len(values) : rows[i].montant = values[k]
    /\ Len(rows) <= Len(values)

\* every row of rows has the value of a cell of line that is above zero,
\* and there are no more rows than such cells
RowsOfPositiveCells(rows, line) ==
    RowsAmong(rows, PositiveCellValues(line, Cells(line), FALSE))

\* the same, where a cell written with a minus sign gives no row either
RowsOfUnsignedCells(rows, line) ==
    RowsAmong(rows, PositiveCellValues(line, Cells(line), TRUE))

\* C3 as stated: every row has an amount above zero, and a cell that is
\* zero, blank, unparseable or negative gives no row.
C3_NegativeCellGivesNoRow ==
    /\ \A i \in 1..Len(all_lines) :
          all_lines[i].montant # None /\ all_lines[i].montant.mant > 0
    /\ page_call # None =>
          \A k \in 1..Len(page_call.trace) :
              RowsOfUnsignedCells(page_call.trace[k].rows, page_call.page_text[k])
    /\ nv_call # None =>
          \A k \in 1..Len(nv_call.trace) :
              RowsOfUnsignedCells(nv_call.trace[k].rows, nv_call.page_text[k])

\* C3 amended: every row of parse_page_data and parse_non_ventilated_page
\* has an amount above zero; a cell that is zero, blank or unparseable gives
\* no row; no negative value is stored. (A cell written with a minus sign is
\* read without the sign and gives a row with its absolute value.)
C3_AmountsAboveZero ==
    /\ \A i \in 1..Len(all_lines) :
          all_lines[i].montant # None /\ all_lines[i].montant.mant > 0
    /\ page_call # None =>
          \A k \in 1..Len(page_call.trace) :
              RowsOfPositiveCells(page_call.trace[k].rows, page_call.page_text[k])
    /\ nv_call # None =>
          \A k \in 1..Len(nv_call.trace) :
              RowsOfPositiveCells(nv_call.trace[k].rows, nv_call.page_text[k])

\* C3 witness: the line "605 Travaux -3,00 1<tab>234,00" has been read under
\* a carried direction: one row, of 3.00, for the cell written -3,00, and no
\* row for the cell that does not parse
C3_Witness ==
    /\ page_call # None
    /\ page_call.page_text = TextNoMarker
    /\ Len(page_call.results) = 1
    /\ page_call.results[1].montant = Float(300, 2)
    /\ page_call.results[1].fonction_code = "020"

\* C6: a line of a non-ventilated page gives at most one row; the amount of
\* the row is the last amount token of the line; when the last token is
\* zero the line gives no row.
C6_LastTokenIsTheAmount ==
    nv_call # None =>
        \A k \in 1..Len(nv_call.trace) :
            LET rows == nv_call.trace[k].rows
                tokens == AMOUNT_RE_findall(strip(nv_call.page_text[k]))
            IN  /\ Len(rows) <= 1
                /\ rows # << >> =>
                      /\ tokens # << >>
                      /\ rows[1].montant = FrenchValue(tokens[Len(tokens)])
                /\ /\ tokens # << >>
                   /\ FrenchValue(tokens[Len(tokens)]).mant = 0
                   => rows = << >>

\* C6 witness: a page has been read whose line of five tokens 1,00 2,00 3,00
\* 4,00 9,00 gave the row 9.00, and whose line ending in 0,00 gave none
C6_Witness ==
    /\ nv_call # None
    /\ nv_call.page_text = NonVentTextTotals
    /\ nv_call.trace[4].rows # << >>
    /\ nv_call.trace[4].rows[1].montant = Float(900, 2)
    /\ Len(AMOUNT_RE_findall(nv_call.page_text[4])) = 5
    /\ nv_call.trace[5].rows = << >>

(***************************************************************************)
(* Properties of merge_year                                                *)
(***************************************************************************)

\* merge_year has returned
Merged == merge_pc = "done"

\* merge_year has returned from the branch that merges: both files exist
MergedBoth == Merged /\ il_file # None /\ bq_file # None

JauresName == "JAURES - Ecole - Travaux"

\* the names of the secondary lines
BqNames == {bq_file.data[k].apTexte : k \in 1..Len(bq_file.data)}

\* the sum of the amounts of the lines of a name
RECURSIVE LinesTotal(_, _)
LinesTotal(lines, name) ==
    IF lines = << >> THEN 0
    ELSE (IF lines[1].apTexte = name THEN lines[1].montant ELSE 0)
         + LinesTotal(Tail(lines), name)

\* the first line of a name
FirstLine(lines, name) ==
    lines[Min({k \in 1..Len(lines) : lines[k].apTexte = name})]

\* the name some primary project has
InPrimary(nom) == \E k \in 1..Len(il_file.data) : il_file.data[k].nom_projet = nom

\* the records the merge has added under a name
AddedAs(name) ==
    {k \in 1..Len(merge_ret.added_projects) : merge_ret.added_projects[k].nom_projet = name}

HasSource(r, s) == "source" \in DOMAIN r /\ r.source = s

RecordName(r) == IF "nom_projet" \in DOMAIN r THEN r.nom_projet ELSE r.apTexte

\* The records of the written file that come from the secondary source:
\* without the file investissements_localises every record was read from
\* the secondary file, with it they are the records tagged BigQuery.
SecondaryRecords(name) ==
    {k \in 1..Len(out_file.data) :
        /\ RecordName(out_file.data[k]) = name
        /\ il_file = None \/ HasSource(out_file.data[k], "BigQuery")}

\* C7 as stated: when the primary set has a project named "Ecole Jean Jaures
\* 15e" and the secondary set has "JAURES - Ecole - Travaux", the secondary
\* project is not added, whatever its amount and arrondissement.
C7_JauresNeverAdded ==
    (MergedBoth /\ InPrimary("Ecole Jean Jaures 15e") /\ JauresName \in BqNames)
        => AddedAs(JauresName) = {}

\* C7 amended: "Ecole Jean Jaures 15e" does not hold the keyword travaux, so
\* it does not make "JAURES - Ecole - Travaux" already present: when no
\* other primary project is there, the secondary project is added exactly
\* when its summed amount is at least 500000 and its arrondissement is
\* known, with that sum as amount. It is left out as already present when a
\* primary name holds jaures, ecole and travaux, as "Travaux ecole Jean
\* Jaures" does.
C7_JauresAddedBesideEcole ==
    (MergedBoth /\ JauresName \in BqNames) =>
        /\ (\A k \in 1..Len(il_file.data) :
                il_file.data[k].nom_projet = "Ecole Jean Jaures 15e")
             => /\ AddedAs(JauresName) # {}
                    <=> /\ LinesTotal(bq_file.data, JauresName) >= 500000
                        /\ FirstLine(bq_file.data, JauresName).arrondissement # 0
                /\ \A k \in AddedAs(JauresName) :
                      merge_ret.added_projects[k].montant
                          = LinesTotal(bq_file.data, JauresName)
        /\ InPrimary("Travaux ecole Jean Jaures") => AddedAs(JauresName) = {}

\* the school is in the primary set, and the project of 600000 is added
C7_Witness ==
    /\ MergedBoth
    /\ il_file.data = <<PdfEcole>>
    /\ bq_file.data = <<BqJaures>>
    /\ out_file # None
    /\ \E k \in 1..Len(out_file.data) :
          /\ out_file.data[k].nom_projet = JauresName
          /\ out_file.data[k].source = "BigQuery"
          /\ out_file.data[k].montant = 600000

\* C8 as stated: in every written output, no record from the secondary
\* source is similar to a primary record, and each secondary name has at
\* most one record, whose amount is the sum of the lines of the name.
C8_NoDuplicateInAnyOutput ==
    (Merged /\ out_file # None /\ bq_file # None) =>
        \A name \in BqNames :
            /\ Cardinality(SecondaryRecords(name)) <= 1
            /\ \A k \in SecondaryRecords(name) :
                  /\ out_file.data[k].montant = LinesTotal(bq_file.data, name)
                  /\ il_file # None =>
                        \A j \in 1..Len(il_file.data) :
                            ~is_similar_project(il_file.data[j].nom_projet, name)

\* C8 amended: when the file investissements_localises exists, no record
\* added from the secondary source is similar to a primary record, each
\* secondary name has at most one added record, its amount the sum of the
\* lines of the name, and the written output is the primary records
\* followed by the added ones.
C8_NoDuplicateAfterMerge ==
    MergedBoth =>
        /\ \A name \in BqNames :
              /\ Cardinality(AddedAs(name)) <= 1
              /\ \A k \in AddedAs(name) :
                    /\ merge_ret.added_projects[k].montant
                          = LinesTotal(bq_file.data, name)
                    /\ \A j \in 1..Len(il_file.data) :
                          ~is_similar_project(il_file.data[j].nom_projet, name)
        /\ \A k \in 1..Len(merge_ret.added_projects) :
              merge_ret.added_projects[k].nom_projet \in BqNames
        /\ out_file # None =>
              /\ Len(out_file.data)
                    = Len(il_file.data) + Len(merge_ret.added_projects)
              /\ \A k \in 1..Len(out_file.data) :
                    IF k <= Len(il_file.data)
                    THEN /\ out_file.data[k].nom_projet = il_file.data[k].nom_projet
                         /\ out_file.data[k].source = "PDF"
                    ELSE out_file.data[k]
                            = merge_ret.added_projects[k - Len(il_file.data)]

\* two lines of one name, 600000 and 300000, give one record of 900000
C8_Witness ==
    /\ MergedBoth
    /\ bq_file.data = <<BqJaures, BqJauresSmall>>
    /\ out_file # None
    /\ Cardinality(SecondaryRecords(JauresName)) = 1
    /\ \A k \in SecondaryRecords(JauresName) : out_file.data[k].montant = 900000

\* a secondary name no primary project is similar to
NotInPdf(name) ==
    \A j \in 1..Len(il_file.data) :
        ~is_similar_project(il_file.data[j].nom_projet, name)

\* the inclusion policy the claim states without its iconic case
PolicyBesideIconic(name) ==
    /\ LinesTotal(bq_file.data, name) >= 500000
    /\ ~EXCLUSION_PATTERNS_search(lower(name))
    /\ FirstLine(bq_file.data, name).arrondissement # 0

C10_NoPrimaryNoOutput ==
    (Merged /\ il_file = None) =>
        merge_ret.status = "NO_PDF_DATA" /\ out_file = None

\* C10 amended: without the file investissements_localises, merge_year
\* reports NO_PDF_DATA and writes nothing only when the file investissements
\* is missing too. When it exists, merge_year returns OK with nothing
\* added, and unless dry_run it writes the secondary lines, as they are, as
\* the projects of the year.
C10_FallsBackOnSecondary ==
    (Merged /\ il_file = None) =>
        IF bq_file = None
        THEN merge_ret.status = "NO_PDF_DATA" /\ out_file = None
        ELSE /\ merge_ret.status = "OK"
             /\ merge_ret.bq_added = 0
             /\ merge_ret.total_projets = Len(bq_file.data)
             /\ IF arg_dry_run THEN out_file = None
                ELSE out_file # None /\ out_file.data = bq_file.data

\* no primary file, two secondary lines written as the output
C10_Witness ==
    /\ Merged
    /\ il_file = None
    /\ bq_file # None
    /\ ~arg_dry_run
    /\ merge_ret.status = "OK"
    /\ out_file # None
    /\ out_file.data = <<BqJaures, BqVoirie>>

\* the sum of the amounts of a list of records
RECURSIVE AmountsTotal(_)
AmountsTotal(data) ==
    IF data = << >> THEN 0 ELSE data[1].montant + AmountsTotal(Tail(data))

\* the list merge_year read as the primary data
PrimaryData == IF il_file # None THEN il_file.data ELSE bq_file.data

\* the totals merge_year reports add up
TotalsAddUp ==
    /\ merge_ret.pdf_projets = Len(PrimaryData)
    /\ merge_ret.bq_added = Len(merge_ret.added_projects)
    /\ merge_ret.total_projets = merge_ret.pdf_projets + merge_ret.bq_added
    /\ merge_ret.total_montant
          = AmountsTotal(PrimaryData) + AmountsTotal(merge_ret.added_projects)

\* C11 as stated: every record of every written output carries the tag PDF
\* or BigQuery, also when there was nothing to merge, and the reported
\* totals add up.
C11_EveryOutputTagged ==
    (Merged /\ merge_ret.status = "OK") =>
        /\ TotalsAddUp
        /\ out_file # None =>
              \A k \in 1..Len(out_file.data) :
                  \/ HasSource(out_file.data[k], "PDF")
                  \/ HasSource(out_file.data[k], "BigQuery")

\* C11 amended: when both files exist, every record of the output carries
\* one tag, PDF for the primary records and BigQuery for the added ones.
\* When one of the two files is missing, the output is the list that was
\* loaded, written as it is: merge_year adds no tag to its records. On every
\* path the reported totals add up.
C11_TaggedWhenMerged ==
    (Merged /\ merge_ret.status = "OK") =>
        /\ TotalsAddUp
        /\ out_file # None =>
              IF il_file # None /\ bq_file # None
              THEN \A k \in 1..Len(out_file.data) :
                      HasSource(out_file.data[k],
                                IF k <= Len(il_file.data) THEN "PDF" ELSE "BigQuery")
              ELSE out_file.data = PrimaryData

\* a written output of one primary record tagged PDF and one added record
\* tagged BigQuery, the total the sum of both
C11_Witness ==
    /\ MergedBoth
    /\ out_file # None
    /\ il_file.data = <<PdfEcole>>
    /\ Len(out_file.data) = 2
    /\ out_file.data[1].source = "PDF"
    /\ out_file.data[2].source = "BigQuery"
    /\ merge_ret.total_montant = PdfEcole.montant + out_file.data[2].montant

(***************************************************************************)
(* Properties of the geocoding of the file of one year                     *)
(***************************************************************************)

\* the tiers of geocode_project in the order of its code
Tiers == <<"lieu_connu", "api_adresse", "api_lieu", "centroid", "none">>

TierRank(tier) == CHOOSE k \in 1..Len(Tiers) : Tiers[k] = tier

\* the tier of a value geocode_project returns
TierOf(ret) == IF ret \in {"api_numero", "api_rue"} THEN "api_adresse" ELSE ret

\* the last turn of a loop was a call of geocode_project
Geocoded == geo_call.op = "geocode_project"

\* the queries of the requests of the last call
Queries == {geo_call.requests[k].q : k \in 1..Len(geo_call.requests)}

\* the query geocode_api sends for a text extracted from the last project
QueryOf(text) == full_query(text, Get(geo_call.after, "arrondissement", 0))

\* C12: geocode_project tries its tiers in the fixed order known place,
\* address, place name, centroid, none; the tier it returns is the last one
\* it tried, so no tier past the first success is tried and the requests it
\* sends are those of the tiers tried; a project that has both a known
\* place and an address gets the score 1.0 and the source lieu_connu
\* without any request to the API and with the cache left as it was.
C12_FirstTierWins ==
    Geocoded =>
        /\ geo_call.tried[1] = "lieu_connu"
        /\ \A i, j \in 1..Len(geo_call.tried) :
              i < j => TierRank(geo_call.tried[i]) < TierRank(geo_call.tried[j])
        /\ TierOf(geo_call.ret) = geo_call.tried[Len(geo_call.tried)]
        /\ geo_call.after.geo_source = geo_call.ret
        /\ Queries \subseteq
              (IF "api_adresse" \in Range(geo_call.tried)
               THEN {QueryOf(geo_call.address)} ELSE {})
              \cup (IF "api_lieu" \in Range(geo_call.tried)
                    THEN {QueryOf(geo_call.place)} ELSE {})
        /\ geo_call.lieu_match # None =>
              /\ geo_call.ret = "lieu_connu"
              /\ geo_call.after.geo_score = 100
              /\ geo_call.requests = << >>
              /\ geo_cache_run = geo_call.cache_before

\* a project with a known place and an address was geocoded
C12_Witness ==
    /\ Geocoded
    /\ geo_call.lieu_match # None
    /\ geo_call.address # ""
    /\ geo_call.ret = "lieu_connu"

\* C13: the score recorded by geocode_project is bounded by the tier that
\* gave the result: exactly 1.0 for a known place, at most 1.0 and above 0.4
\* for the address tier, at most 0.5 for the place name tier, exactly 0.1
\* for the centroid and exactly 0 for none.
C13_ScoreBoundedByTier ==
    Geocoded =>
        /\ geo_call.ret = "lieu_connu" => geo_call.after.geo_score = 100
        /\ geo_call.ret \in {"api_numero", "api_rue"} =>
              geo_call.after.geo_score > 40 /\ geo_call.after.geo_score <= 100
        /\ geo_call.ret = "api_lieu" => geo_call.after.geo_score <= 50
        /\ geo_call.ret = "centroid" => geo_call.after.geo_score = 10
        /\ geo_call.ret = "none" => geo_call.after.geo_score = 0

\* the place name tier gave a result
C13_Witness ==
    /\ Geocoded
    /\ geo_call.ret = "api_lieu"
    /\ geo_call.after.geo_score > 30

\* the priority of a recorded source: known place, address, place name,
\* LLM-assisted, centroid, none
SourceRank(source) ==
    CASE source = "lieu_connu" -> 1
      [] source \in {"api_numero", "api_rue"} -> 2
      [] source = "api_lieu" -> 3
      [] source = "llm_ban" -> 4
      [] source = "centroid" -> 5
      [] OTHER -> 6

\* the last turn of a loop was on a project that had a recorded geocode
Regeocoded == geo_call.op # "none" /\ "geo_source" \in DOMAIN geo_call.before

\* the last turn of a loop was a turn of the LLM step
LlmStep == geo_call.op = "llm"

\* the source recorded before the last turn
SourceBefore == Get(geo_call.before, "geo_source", "")

\* the source recorded after the last turn
SourceAfter == Get(geo_call.after, "geo_source", "")

\* the last turn did not lower the priority of the recorded source
NotLowered ==
    SourceRank(SourceAfter) <= SourceRank(SourceBefore)

\* C14: through any sequence of runs of the cascade and of the
\* LLM step on the file, no step replaces the recorded geocode of a project
\* by the result of a tier of lower priority, and the LLM step changes only
\* projects whose source is centroid or none.
C14_NeverLowered ==
    /\ Regeocoded => NotLowered
    /\ LlmStep /\ geo_call.after # geo_call.before =>
          SourceBefore \in {"centroid", "none"}

\* What holds of the steps: the LLM step changes only projects whose source is
\* centroid or none and never lowers the priority of the recorded source; a
\* run of the cascade never lowers a source that the cascade recorded, but
\* it computes the geocode anew and replaces a source llm_ban by what its
\* own tiers give.
C14_LoweredOnlyFromLlm ==
    /\ LlmStep =>
          /\ NotLowered
          /\ geo_call.after # geo_call.before =>
                /\ SourceBefore \in {"centroid", "none"}
                /\ SourceAfter = "llm_ban"
    /\ Regeocoded /\ Geocoded =>
          /\ SourceBefore # "llm_ban" => NotLowered
          /\ SourceAfter = geo_call.ret
          /\ geo_call.ret # "llm_ban"

\* the cascade ran again on a project that the LLM step had geocoded
C14_Witness ==
    /\ Geocoded
    /\ Regeocoded
    /\ SourceBefore = "llm_ban"
    /\ geo_call.ret \in {"centroid", "none"}

\* the model answered the last turn of the LLM step with an address and a
\* confidence of 0.85 or more
LlmConfident ==
    /\ ~geo_call.llm_response.raises
    /\ Get(geo_call.llm_response.json, "adresse", "") # ""
    /\ Get(geo_call.llm_response.json, "confidence", 0) >= 85

\* the API answered the validation of the last turn with a first feature in
\* Paris whose score is above 0.4
BanConfirmed ==
    /\ ~geo_call.ban_response.raises
    /\ geo_call.ban_response.features # << >>
    /\ startswith(Get(geo_call.ban_response.features[1].properties, "postcode", ""), "75")
    /\ Get(geo_call.ban_response.features[1].properties, "score", 0) > 40

\* C15: the LLM step gives a project the source llm_ban only when the model
\* returned an address with a confidence of 0.85 or more and the API
\* validated it with a first result in Paris of score above 0.4; in every
\* other case the project is left as it was, coordinates, source, score and
\* label.
C15_DoubleValidation ==
    LlmStep =>
        /\ geo_call.after # geo_call.before =>
              /\ LlmConfident
              /\ BanConfirmed
              /\ SourceAfter = "llm_ban"
        /\ ~(LlmConfident /\ BanConfirmed) => geo_call.after = geo_call.before
        /\ LlmConfident /\ BanConfirmed /\ ~llm_dry_run =>
              /\ SourceAfter = "llm_ban"
              /\ geo_call.after.geo_label =
                    geo_call.ban_response.features[1].properties.label

\* the LLM step geocoded a project that had no geolocation
C15_Witness ==
    /\ LlmStep
    /\ SourceBefore = "none"
    /\ SourceAfter = "llm_ban"
    /\ geo_call.after.geo_score = 85

\* the arrondissement geocode_project had for the last project: the one
\* that came with the file, else the one in the name
ArrKnown ==
    project_arrondissement(geo_call.before, Get(geo_call.before, "nom_projet", ""))

\* the last project has coordinates
HasCoordinates == {"lat", "lon"} \subseteq DOMAIN geo_call.after

\* C16: a project whose arrondissement is known, a value from 1 to 20 that
\* came with the file or was found in its name, leaves geocode_project with
\* coordinates and a source that is not none; when no tier before it gives
\* a result it gets the centroid of the arrondissement with the score 0.1.
C16_KnownArrondissementLocated ==
    Geocoded /\ ArrKnown \in 1..20 =>
        /\ HasCoordinates
        /\ geo_call.ret # "none"
        /\ geo_call.ret \notin {"lieu_connu", "api_numero", "api_rue", "api_lieu"} =>
              /\ geo_call.ret = "centroid"
              /\ geo_call.after.geo_source = "centroid"
              /\ geo_call.after.geo_score = 10
              /\ <<geo_call.after.lat, geo_call.after.lon>> = CENTROIDS[ArrKnown]

\* a project whose arrondissement was found in its name got the centroid
\* after the API gave nothing for its address
C16_Witness ==
    /\ Geocoded
    /\ Get(geo_call.before, "arrondissement", 0) = 0
    /\ ArrKnown = 19
    /\ geo_call.address # ""
    /\ geo_call.requests # << >>
    /\ geo_call.ret = "centroid"

\* C17: whenever geocode_project ends in none, the project has the score 0
\* and no coordinates, also when it held coordinates and a label from an
\* earlier geocoding.
C17_NoneHasNoCoordinates ==
    Geocoded /\ geo_call.ret = "none" =>
        /\ geo_call.after.geo_source = "none"
        /\ geo_call.after.geo_score = 0
        /\ "lat" \notin DOMAIN geo_call.after
        /\ "lon" \notin DOMAIN geo_call.after

\* geocode_project ended in none on a project that held coordinates
C17_Witness ==
    /\ Geocoded
    /\ geo_call.ret = "none"
    /\ "lat" \in DOMAIN geo_call.before

\* the last step was a call of geocode_api
Looked == geo_call.op = "geocode_api"

\* the key of the last call was in the cache
CacheHit == geo_call.key \in DOMAIN geo_call.cache_before

\* no response read by the last call raised
NoException ==
    \A k \in 1..Len(geo_call.requests) : ~geo_call.responses[k].raises

\* every entry of the first cache is in the second, with its value
Extends(cache_before, cache_after) ==
    \A k \in DOMAIN cache_before :
        k \in DOMAIN cache_after /\ cache_after[k] = cache_before[k]

\* C18: once geocode_api has completed a lookup for a key without an
\* exception, the key is in the cache with what was found, a result or
\* null; the entries of the cache stay as they are, through the run and,
\* by the file saved and loaded, through the later runs; and a lookup whose
\* key is in the cache sends no request and returns the stored value.
C18_CompletedLookupsCached ==
    /\ Looked =>
          /\ CacheHit =>
                /\ geo_call.requests = << >>
                /\ geo_call.result = geo_call.cache_before[geo_call.key]
          /\ ~CacheHit /\ NoException =>
                /\ geo_call.key \in DOMAIN geo_cache_run
                /\ geo_cache_run[geo_call.key] = geo_call.result
          /\ Extends(geo_call.cache_before, geo_cache_run)
    /\ geo_pc = "lookups" => Extends(load_geo_cache(geo_cache_file), geo_cache_run)
    /\ geo_pc = "idle" /\ geo_runs > 0 => geo_cache_file = geo_cache_run

\* the first lookup of a later run found its key in the cache, stored with
\* null by an earlier run
C18_Witness ==
    /\ Looked
    /\ geo_runs = 2
    /\ geo_i = 1
    /\ CacheHit
    /\ geo_call.result = None
    /\ geo_call.requests = << >>

(***************************************************************************)
(* Properties of call_gemini_batch                                         *)
(***************************************************************************)

\* the last response call_gemini_batch received
LastPost == gem_posts[Len(gem_posts)]

\* a request was sent again only after a response with the status 429
RetriedOn429Only ==
    \A k \in 1..(Len(gem_posts) - 1) :
        ~gem_posts[k].raises /\ gem_posts[k].status_code = 429

\* the waits are 30 s before the second request and 60 s before the third
FixedDelays ==
    /\ gem_slept = SubSeq(<<30, 60>>, 1, Len(gem_slept))
    /\ Len(gem_slept) = IF gem_pc = "post" THEN Len(gem_posts)
                        ELSE IF gem_posts = << >> THEN 0
                        ELSE Len(gem_posts) - 1

\* a call that ended on a response that is not a 200 returned the empty
\* list and raised nothing
FailureIsEmpty ==
    (gem_pc = "done" /\ gem_posts # << >>
        /\ (LastPost.raises \/ LastPost.status_code # 200))
    => gem_ret = [returned |-> << >>]

BoundedRetries ==
    /\ Len(gem_posts) <= 3
    /\ Len(gem_slept) <= 2
    /\ RetriedOn429Only
    /\ FixedDelays
    /\ FailureIsEmpty

\* C19: call_gemini_batch sends a request again only after a response with
\* the status 429, twice at most, after waits of 30 s then 60 s: it sends
\* three requests at most; it always ends, and when its last response is
\* not a 200 it returns the empty list and raises nothing.
C19_BoundedRetries == [](gem_pc # "idle" => BoundedRetries) /\ <>(gem_pc = "done")

\* three responses with the status 429: two waits, and the empty list
C19_Witness ==
    /\ gem_pc = "done"
    /\ Len(gem_posts) = 3
    /\ \A k \in 1..3 : ~gem_posts[k].raises /\ gem_posts[k].status_code = 429
    /\ gem_slept = <<30, 60>>
    /\ gem_ret = [returned |-> << >>]

(***************************************************************************)
(* Properties of the address tier                                          *)
(***************************************************************************)

\* the last turn of the loop of geocode_ap_cache.py took the result of
\* geocode_address as the location of the row
ApAddressAccepted == ap_call.op = "row" /\ ap_call.counted = "from_api_address"

\* the response of the API geocode_address built its result from: the one
\* to the housenumber request when it has a feature, else the second one
ApAddressResponse ==
    IF ap_call.responses[1].features # << >>
    THEN ap_call.responses[1]
    ELSE ap_call.responses[2]

\* the first feature of a response has a score above 0.4 and a postcode of
\* Paris
InParisAboveFloor(response) ==
    /\ Get(response.features[1].properties, "score", 0) > 40
    /\ startswith(Get(response.features[1].properties, "postcode", ""), "75")

\* geocode_investments: the address tier of geocode_project gives a result
\* only with a score above 0.4, and geocode_api builds a result only from a
\* feature with a postcode of Paris
GeoAddressTierChecked ==
    /\ Geocoded /\ geo_call.ret \in {"api_numero", "api_rue"} =>
          geo_call.after.geo_score > 40
    /\ Looked /\ ~CacheHit /\ geo_call.result # None =>
          paris_feature(geo_call.responses[Len(geo_call.requests)])

\* geocode_ap_cache: a row located by the address tier was given a feature
\* with a score above 0.4 and a postcode of Paris
ApAddressTierChecked == ApAddressAccepted => InParisAboveFloor(ApAddressResponse)

\* C20: a result of the address API becomes the location of a project or
\* of a row only if its score is above 0.4 and its postcode starts with 75,
\* in geocode_investments and in geocode_ap_cache.
C20_AddressInParisAboveFloor == GeoAddressTierChecked /\ ApAddressTierChecked

\* geocode_ap_cache located a row by its address tier
C20_Witness ==
    /\ ApAddressAccepted
    /\ ap_call.after.ode_source = "api_adresse"
    /\ ap_call.after.ode_latitude # 0

(***************************************************************************)
(* Properties of the loops over the years                                  *)
(***************************************************************************)

\* the years of the run whose turn of the loop has been taken
YearsTurned == {yr_years[k] : k \in 1..Min({yr_i - 1, Len(yr_years)})}

\* C21: when several years are asked for and the document of a year is
\* missing or cannot be fetched, that year is logged and skipped and every
\* other year is still extracted: no exception leaves the loop over the
\* years, in extract_pdf_budget_vote.py and in extract_pdf_investments.py.
C21_FailedYearSkipped ==
    yr_pc \in {"years", "done"} /\ yr_all =>
        /\ yr_ret = None
        /\ YearsTurned = Range(yr_extracted) \cup Range(yr_logged)
        /\ yr_pc = "done" => YearsTurned = Range(yr_years)

\* extract_pdf_investments.py logged a year it could not fetch and
\* extracted the years after it
C21_Witness ==
    /\ yr_script = "extract_pdf_investments"
    /\ yr_all
    /\ yr_pc = "done"
    /\ yr_logged = <<2024>>
    /\ yr_extracted = <<2023, 2022, 2021>>

(***************************************************************************)
(* Properties of the runs on an empty year                                 *)
(***************************************************************************)

\* geocode_year counted no project in the file of the year
ZeroProjects == "total" \in DOMAIN geo_stats /\ geo_stats["total"] = 0

\* process_year found no candidate in the file of the year
ZeroCandidates ==
    "total_candidates" \in DOMAIN geo_stats /\ geo_stats["total_candidates"] = 0

\* C22: geocode_year on a year with no project and process_year on a year
\* with no candidate end normally: they return their statistics with a
\* status and raise nothing.
C22_EmptyYearReturnsStatus ==
    geo_pc = "idle" /\ geo_ret # None /\ (ZeroProjects \/ ZeroCandidates) =>
        "status" \in DOMAIN geo_ret

\* process_year ended on a year with projects of which none is a candidate
C22_Witness ==
    /\ geo_pc = "idle"
    /\ geo_ret # None
    /\ ZeroCandidates
    /\ Len(projects) > 0

(***************************************************************************)
(* Properties of the caches of the enrichment                              *)
(***************************************************************************)

\* the loop over batches is running
EnrichRunning == en_pc \in {"batches", "save", "write"}

\* the last step called the model on a batch and wrote its entries
BatchTurned == en_call.op = "batch"

\* the results call_gemini_batch returned hold nothing for the j-th item of
\* the batch: the response was not parsed and not repaired, or it leaves
\* the item out
Unanswered(j) ==
    \A k \in 1..Len(en_call.batch_results) :
        result_key(en_script, en_call.batch_results[k])
            # lookup_key(en_script, en_call.batch, j)

\* the rows of the query that had no entry in the cache the run loaded
CacheMisses == {key \in Range(en_rows) : key \notin DOMAIN en_loaded}

\* C23: an item of a batch the response of the model holds no result for
\* (a response neither parsed nor repaired holds none) gets no entry in the
\* cache; a run selects exactly the rows without an entry in the cache it
\* loaded, so such an item is selected again and an item with an entry is
\* not sent to the model again.
C23_FailedItemsStayMissing ==
    /\ BatchTurned =>
          /\ \A j \in 1..Len(en_call.batch) :
                Unanswered(j) => en_call.batch[j] \notin DOMAIN en_call.cache_after
          /\ Range(en_call.batch) \cap DOMAIN en_call.cache_before = {}
    /\ EnrichRunning => Range(en_to_process) = CacheMisses

\* the second run selects the first row again, which the first run sent to
\* the model with the second row and got no result for
C23_Witness ==
    /\ en_runs = 2
    /\ en_pc = "batches"
    /\ row_key(en_script, 2) \in DOMAIN en_loaded
    /\ row_key(en_script, 1) \in Range(en_to_process)

\* the seed file holds every entry it held when the last save_cache ended
EntriesOnDisk ==
    \A key \in DOMAIN en_done : key \in DOMAIN en_file /\ en_file[key] = en_done[key]

\* C25: at every point of a run the results of all the batches that were
\* completed are on disk, so that a crash at any moment loses the results
\* of the batch in flight at most.
C25_CompletedBatchesOnDisk == EntriesOnDisk

\* the process was killed while save_cache wrote the second batch: the
\* seed file is empty and the entries of the first batch are lost
C25_Witness ==
    /\ en_call.op = "crash"
    /\ en_call.at = "write"
    /\ en_i > 1
    /\ en_done # EmptyDict
    /\ en_file = EmptyDict

\* the arrondissements the prompt allows, as the cache writes them
ArrondissementsOfParis == {str_of(k) : k \in 1..20}

\* C30: every entry of the cache of enrich_geo_ap_llm.py with the source
\* llm_gemini has an arrondissement that is an integer from 1 to 20,
\* whether the response of the model was parsed or repaired.
C30_LlmArrondissementInParis ==
    en_script = "enrich_geo_ap_llm" =>
        \A key \in DOMAIN en_file :
            en_file[key].source = "llm_gemini" =>
                en_file[key].arrondissement \in ArrondissementsOfParis

\* a repaired response gave the first row an entry of source llm_gemini,
\* which was saved
C30_Witness ==
    /\ en_script = "enrich_geo_ap_llm"
    /\ BatchTurned
    /\ en_pc = "batches"
    /\ ~en_call.response.raises
    /\ en_call.response.body.candidates
    /\ ~en_call.response.body.parsed
    /\ en_call.batch[1] \notin DOMAIN en_call.cache_before
    /\ en_call.batch[1] \in DOMAIN en_file
    /\ en_file[en_call.batch[1]].source = "llm_gemini"

(***************************************************************************)
(* Properties of is_similar_project                                        *)
(***************************************************************************)

\* the words of the normalized name that are longer than three characters,
\* in the order of the name
SignificantWords(name) ==
    LET words == split(normalize_name(name))
        significant(w) == Len(w) > 3
    IN  SelectSeq(words, significant)

\* the first three of the words, or all of them when there are fewer
FirstThree(words) == {words[p] : p \in {q \in 1..Len(words) : q <= 3}}

\* the three longest of the words (of two words of the same length the one
\* that comes first is taken first), or all of them when there are fewer
LongestThree(words) ==
    {words[p] : p \in {q \in 1..Len(words) :
        Cardinality({r \in 1..Len(words) :
                        \/ Len(words[r]) > Len(words[q])
                        \/ Len(words[r]) = Len(words[q]) /\ r < q}) < 3}}

\* the name of the PDF holds every one of the keywords, and there is one
HoldsAll(pdf_name, keywords) ==
    /\ keywords # {}
    /\ \A w \in keywords : contains(normalize_name(pdf_name), w)

\* already_in_pdf is true when the entry is similar to a project of the PDF
AlreadyIffSimilarToOne ==
    sim_ret.already_in_pdf = (\E k \in 1..Len(sim_pdf) : sim_ret.similar[k])

\* C26 as stated: is_similar_project is true exactly when the normalized
\* name of BigQuery has a word longer than three characters and the three
\* longest of these words are all in the normalized name of the PDF; the
\* entry is already in the PDF when this holds for one project of the PDF.
C26_ThreeLongestWords ==
    sim_pc = "done" =>
        /\ \A k \in 1..Len(sim_pdf) :
              sim_ret.similar[k]
                  = HoldsAll(sim_pdf[k].nom_projet, LongestThree(SignificantWords(sim_bq)))
        /\ AlreadyIffSimilarToOne

\* C26, amended: is_similar_project is true exactly when the normalized
\* name of BigQuery has a word longer than three characters and the first
\* three of these words, in the order of the name, are all in the
\* normalized name of the PDF; the entry is already in the PDF when this
\* holds for one project of the PDF.
C26_FirstThreeWords ==
    sim_pc = "done" =>
        /\ \A k \in 1..Len(sim_pdf) :
              sim_ret.similar[k]
                  = HoldsAll(sim_pdf[k].nom_projet, FirstThree(SignificantWords(sim_bq)))
        /\ AlreadyIffSimilarToOne

\* an entry with four words longer than three characters was found in the
\* PDF by its first three, its longest word being in no name of the PDF
C26_Witness ==
    /\ sim_pc = "done"
    /\ sim_bq = "Ecole Jean Jaures renovation"
    /\ Len(SignificantWords(sim_bq)) = 4
    /\ Len(sim_pdf) = 2
    /\ sim_ret.similar = <<FALSE, TRUE>>
    /\ sim_ret.already_in_pdf

(***************************************************************************)
(* Properties of the columns of a ventilated line                          *)
(***************************************************************************)

\* line k of the page read last is a nature line under a direction
IsNatureLine(k) ==
    /\ NatureCodeMatch(strip(page_call.page_text[k]), 3, 3) # ""
    /\ SensBefore(page_call, k) # NoSens

\* the three cases of the precedence, for k tokens and n columns
TotalDropped(k, n, total) == total /\ k = n + 1

ExtraTokens(k, n, total) == ~total /\ k > n

ShortLine(k, n) == k < n

\* the token (from 1) that goes to column c (from 1), 0 when no token does
TokenOfColumn(c, k, n, total) ==
    IF TotalDropped(k, n, total) THEN c
    ELSE IF ExtraTokens(k, n, total) THEN k - n + c
    ELSE IF ShortLine(k, n) /\ c > n - k THEN c - (n - k)
    ELSE 0

\* the columns of a line whose token is an amount above zero
ColumnsAboveZero(line, n, total) ==
    {c \in 1..n :
        /\ TokenOfColumn(c, Len(Cells(line)), n, total) # 0
        /\ IsPositiveCell(line, Cells(line)[TokenOfColumn(c, Len(Cells(line)), n, total)])}

\* the rows are one row for each of the columns, with the code of the
\* column and the value of its token
RowsOfColumns(rows, line, layout) ==
    /\ Len(rows) = Cardinality(ColumnsAboveZero(line, layout.n_funcs, layout.has_total_col))
    /\ {<<rows[i].fonction_code, rows[i].montant>> : i \in 1..Len(rows)}
         = {<<layout.func_codes[c],
              FrenchValue(CellText(line, Cells(line)[
                  TokenOfColumn(c, Len(Cells(line)), layout.n_funcs, layout.has_total_col)]))>> :
               c \in ColumnsAboveZero(line, layout.n_funcs, layout.has_total_col)}

\* no column has two rows, and every row has an amount above zero
OneRowByColumn(rows, layout) ==
    /\ Len(rows) <= layout.n_funcs
    /\ \A i, j \in 1..Len(rows) :
          rows[i].fonction_code = rows[j].fonction_code => i = j
    /\ \A i \in 1..Len(rows) :
          /\ rows[i].fonction_code \in Range(layout.func_codes)
          /\ rows[i].montant.mant > 0

ColumnsOfLine(k, layout) ==
    /\ OneRowByColumn(page_call.trace[k].rows, layout)
    /\ \/ TotalDropped(Len(Cells(page_call.page_text[k])), layout.n_funcs, layout.has_total_col)
       \/ ExtraTokens(Len(Cells(page_call.page_text[k])), layout.n_funcs, layout.has_total_col)
       \/ ShortLine(Len(Cells(page_call.page_text[k])), layout.n_funcs)
       => RowsOfColumns(page_call.trace[k].rows, page_call.page_text[k], layout)

\* C27: on a nature line with k amounts of a page with n function columns,
\* with a confirmed total column and k = n + 1 the last amount is dropped
\* and amount i goes to column i; without one and k > n the last n amounts
\* are used; with k < n amount i goes to column n - k + i. A line gives one
\* row at most for a column, and only for an amount above zero.
C27_TokensToColumns ==
    page_call # None /\ ~page_call.raised =>
        \A k \in 1..Len(page_call.trace) :
            IsNatureLine(k) => ColumnsOfLine(k, page_layout(page_call.page_text))

\* a line of four amounts on a page of two columns without total column:
\* the last two amounts are used, and the one above zero gives the row
C27_Witness ==
    /\ page_call # None
    /\ page_call.page_text = TextExtraAmounts
    /\ ~page_layout(TextExtraAmounts).has_total_col
    /\ page_layout(TextExtraAmounts).n_funcs = 2
    /\ Len(Cells(TextExtraAmounts[3])) = 4
    /\ Len(page_call.results) = 1
    /\ page_call.results[1].fonction_code = "020"
    /\ page_call.results[1].montant = Float(200, 2)

(***************************************************************************)
(* Properties of the cache of geocode_api during a run                     *)
(***************************************************************************)

\* the keys the second cache has and the first has not
KeysAdded(cache_before, cache_after) == DOMAIN cache_after \ DOMAIN cache_before

\* a response the call read raised
LookupRaised(call) == \E k \in 1..Len(call.requests) : call.responses[k].raises

\* one call of geocode_api during a run: the entries of the cache stay,
\* with their values; the key of the call is the only key that can be
\* added, and it is added when it was absent and no response raised, with
\* what the call returns; a call that raised leaves the cache as it was,
\* and a call whose key is absent sends a request
C28_Lookup ==
    geo_pc = "lookups" /\ geo_pc' = "lookups" /\ geo_i' = geo_i + 1 =>
        /\ \A key \in DOMAIN geo_cache_run :
              key \in DOMAIN geo_cache_run' /\ geo_cache_run'[key] = geo_cache_run[key]
        /\ KeysAdded(geo_cache_run, geo_cache_run') \subseteq {geo_call'.key}
        /\ KeysAdded(geo_cache_run, geo_cache_run') # {} =>
              /\ ~LookupRaised(geo_call')
              /\ geo_cache_run'[geo_call'.key] = geo_call'.result
        /\ geo_call'.key \notin DOMAIN geo_cache_run =>
              /\ geo_call'.requests # << >>
              /\ LookupRaised(geo_call') <=> KeysAdded(geo_cache_run, geo_cache_run') = {}

\* C28: during a run the cache of geocode_investments only grows: an entry
\* is never removed nor replaced; an entry is added only by a lookup of an
\* absent key that completes, with a result or with null; a lookup that
\* raises adds none, so that its key is looked up again.
C28_AppendOnly == [][C28_Lookup]_vars

\* the second lookup of a run raised and left the cache, which holds the
\* entry of the first lookup, without its key
C28_Witness ==
    /\ Looked
    /\ geo_i = 2
    /\ LookupRaised(geo_call)
    /\ geo_call.key \notin DOMAIN geo_cache_run
    /\ geo_cache_run = geo_call.cache_before
    /\ geo_cache_run # EmptyDict

(***************************************************************************)
(* Properties of extract_year of extract_pdf_investments.py                *)
(***************************************************************************)

\* the last turn of the loop over the pages called the model
LlmCalled == inv_call.op = "page" /\ inv_call.called

\* C29: once a call of the model was answered 429 / RESOURCE_EXHAUSTED, or
\* after 3 extractions by the model that failed in a row, no page of the
\* rest of the year calls the model and each is extracted by the regular
\* expressions; an extraction by the model that succeeds sets
\* llm_failed_count to 0.
C29_QuotaStopsLlm ==
    inv_call.op = "page" =>
        /\ inv_call.quota_before \/ inv_call.streak_before >= MAX_LLM_FAILURES =>
              ~inv_call.called /\ inv_call.method = "regex"
        /\ inv_call.called /\ ~inv_call.failure => inv_failed = 0

\* a page called the model after the call of an earlier page was answered
\* 429 / RESOURCE_EXHAUSTED
C29_Witness == LlmCalled /\ inv_call.quota_before

\* the total a page prints after "Total général", in hundredths: the digits
\* of the amount, whatever groups them; 0 for a page without one
printed_total(text) ==
    IF total_match_of(text) = "" THEN 0 ELSE DigitsValue(OnlyDigits(total_match_of(text)))

\* the total of the page of the last turn: the one the model reported when
\* the projects of the page are the model's, the one of the text otherwise
PagePrintedTotal ==
    IF inv_call.method = "llm"
    THEN inv_call.response.total_page_indique
    ELSE printed_total(PageContent(inv_call.text))

\* the page of the last turn prints a total that differs by more than the
\* tolerance from the sum of the amounts extracted from it
TotalDiffers ==
    /\ inv_call.op = "page"
    /\ PagePrintedTotal # 0
    /\ ecart_total(sum_montants(inv_call.result.projets), PagePrintedTotal)

\* the warnings that tell of the total of a page
TotalWarnings == {"Ecart total", "Page recapitulative ignoree"}

\* the last turn of the loop ended without an exception and the projects of
\* its page are in the projects of the year
PageIncluded ==
    /\ inv_pc \in {"pages", "done"}
    /\ \A p \in Range(inv_call.result.projets) : p \in Range(inv_projets)

\* C24: whenever a page prints a total and the sum of the amounts extracted
\* from the page differs from it by more than 100, a warning is attached to
\* the result of the page and is in the warnings of the year; extraction
\* goes on and the projects of the page are in the result of the year.
C24_MismatchWarned ==
    TotalDiffers =>
        /\ \E k \in 1..Len(inv_call.result.warnings) :
              inv_call.result.warnings[k].text \in TotalWarnings
        /\ \E k \in 1..Len(inv_warnings) :
              /\ inv_warnings[k].page = inv_call.page_num
              /\ inv_warnings[k].warning.text \in TotalWarnings
        /\ PageIncluded

\* the regular expressions took 1 200,00 from a page that prints the total
\* 9 200,00 with a non-breaking space, and the page has no warning
C24_Witness ==
    /\ TotalDiffers
    /\ inv_call.text = "nbsp"
    /\ inv_call.method = "regex"
    /\ inv_call.result.total_page = 120000
    /\ PagePrintedTotal = 920000
    /\ inv_call.result.warnings = << >>
    /\ PageIncluded

====
